---- MODULE Spec2Model ----
(***************************************************************************)
(* Consistency subsystem of the blink note application: the file based     *)
(* note repository (file_storage.rs), the SQLite index (database.rs), the  *)
(* modified-state tracker (modified_state_tracker.rs), the note commands   *)
(* (commands.rs, file_operations.rs, note_service.rs) and the detached     *)
(* windows (windows.rs, window_service.rs).                                *)
(***************************************************************************)
EXTENDS Integers, Sequences, FiniteSets, TLC

VARIABLES
    files,          \* notes directory: file name -> file text (only *.md files)
    index,          \* rows of table `notes` in .blink/notes.db: id -> row
    notes,          \* NotesState: the in-memory note map, id -> Note
    content_hashes, \* ModifiedStateTracker.content_hashes: id -> hash
    dirty_flags,    \* ModifiedStateTracker.dirty_flags: id -> BOOLEAN
    uuid_count,     \* number of uuid::Uuid::new_v4() values handed out
    now,            \* chrono::Utc::now(), a logical clock
    load_result,    \* what the last load_notes() call returned (with its trace)
    started,        \* load_application_data has run
    pending,        \* reload_notes_from_directory: the loaded map, not yet installed
    notes_cache,    \* NoteService.notes_cache: id -> Note
    last,           \* what the last command returned (with its trace)
    detached_windows, \* DetachedWindowsState: window label -> DetachedWindow
    live_windows,   \* the webview windows of the host runtime: label -> window
    windows_file,   \* detached_windows.json: the record map last saved
    spatial_files,  \* spatial_{note_id}.json: note id -> DetachedWindow
    active_windows, \* WindowService.active_windows: note id -> DetachedWindow
    window_states,  \* workspace state on disk: note id -> WindowState
    events,         \* the notifications emitted to the frontend, in order
    toggle_state,   \* ToggleState: a toggle_all_windows_hover is in flight
    main_visible,   \* the main window is visible
    tasks,          \* the running tasks: task -> where it is in its code
    notes_lock,     \* holder of the NotesState mutex, None when free
    windows_lock,   \* holder of the DetachedWindowsState mutex, None when free
    config_lock,    \* holder of the ConfigState mutex, None when free
    hashes_lock,    \* holder of the tracker's content_hashes mutex
    flags_lock      \* holder of the tracker's dirty_flags mutex

\* The state of the running tasks and of the mutexes.
taskvars == <<toggle_state, main_visible, tasks, notes_lock, windows_lock,
              config_lock, hashes_lock, flags_lock>>

\* The window state.
winvars == <<detached_windows, live_windows, windows_file, spatial_files,
             active_windows, window_states, events, toggle_state,
             main_visible, tasks, notes_lock, windows_lock, config_lock,
             hashes_lock, flags_lock>>

vars == <<files, index, notes, content_hashes, dirty_flags, uuid_count, now,
          load_result, started, pending, notes_cache, last, detached_windows,
          live_windows, windows_file, spatial_files, active_windows,
          window_states, events, toggle_state, main_visible, tasks,
          notes_lock, windows_lock, config_lock, hashes_lock, flags_lock>>

(***************************************************************************)
(* Bounds of the model.                                                    *)
(***************************************************************************)
MaxPos == 1         \* positions found in files range over -1 .. MaxPos
MaxLoads == 2       \* load_notes() calls in one behaviour
MaxWinOps == 3      \* window commands called in a behaviour
MaxOps == 2         \* commands in one behaviour
MaxTitleLen == 4    \* characters in the title of a serialized note

(***************************************************************************)
(* Option<T>: None is the empty sequence, Some(x) a one element sequence.  *)
(***************************************************************************)
None == <<>>
Some(x) == <<x>>

Max(S) == CHOOSE x \in S : \A y \in S : y <= x

Perms(S) ==
    {f \in [1..Cardinality(S) -> S] : \A i, j \in DOMAIN f : i # j => f[i] # f[j]}

EmptyMap == <<>>

\* uuid::Uuid::new_v4(): the k-th value handed out; never equal to an id
\* that is found in a file of the initial directory ("n1", "n2").
UuidPool ==
    <<"u1", "u2", "u3", "u4", "u5", "u6", "u7", "u8", "u9", "u10", "u11", "u12",
      "u13", "u14", "u15", "u16", "u17", "u18", "u19", "u20">>
Uuid(k) == UuidPool[k]

\* ModifiedStateTracker::compute_content_hash / FileStorageManager::compute_file_hash
compute_content_hash(content) == <<"sha256", content>>
compute_file_hash(content) == <<"sha256", content>>

(***************************************************************************)
(* File names.  A title is a sequence of characters.                       *)
(***************************************************************************)
sanitize_char(c) ==
    IF c \in {"/", "\\", ":", "*", "?", "\"", "<", ">", "|"} THEN "-" ELSE c

RECURSIVE trim_start(_)
trim_start(s) == IF s # <<>> /\ Head(s) = " " THEN trim_start(Tail(s)) ELSE s

RECURSIVE trim_end(_)
trim_end(s) ==
    IF s # <<>> /\ s[Len(s)] = " " THEN trim_end(SubSeq(s, 1, Len(s) - 1)) ELSE s

sanitize_filename(title) ==
    trim_end(trim_start([i \in 1..Len(title) |-> sanitize_char(title[i])]))

\* format!("{}.md", filename)
MdName(filename) == Append(filename, ".md")
\* Path::file_stem
file_stem(path) == SubSeq(path, 1, Len(path) - 1)
\* path.extension() == "md"
is_md(path) == Len(path) > 1 /\ path[Len(path)] = ".md"

(***************************************************************************)
(* Notes and file texts.                                                   *)
(***************************************************************************)
Note(id, title, content, created_at, updated_at, tags, position) ==
    [id |-> id, title |-> title, content |-> content, created_at |-> created_at,
     updated_at |-> updated_at, tags |-> tags, position |-> position]

\* The text save_note writes: "---\n{frontmatter yaml}---\n{content}".
FileText(note) ==
    [kind |-> "frontmatter", id |-> note.id, title |-> note.title,
     created_at |-> note.created_at, updated_at |-> note.updated_at,
     tags |-> note.tags, position |-> note.position, content |-> note.content]

\* A file without a leading "---\n" block.
PlainText(content) == [kind |-> "plain", content |-> content]
\* A file whose frontmatter block is not valid YAML for NoteFrontmatter.
MalformedText == [kind |-> "malformed"]

\* content.lines().next() starts with '#': the heading, trimmed.
FirstLineHeading(content) == IF content = "# b" THEN Some(<<"b">>) ELSE None

parse_markdown_note(text, path, uuid, time) ==
    CASE text.kind = "frontmatter" ->
            [ok |-> TRUE, uuids |-> 0,
             note |-> Note(text.id, text.title, text.content, text.created_at,
                           text.updated_at, text.tags, text.position)]
      [] text.kind = "malformed" ->
            [ok |-> FALSE, uuids |-> 0, note |-> None]
      [] OTHER ->
            [ok |-> TRUE, uuids |-> 1,
             note |-> Note(uuid,
                           IF FirstLineHeading(text.content) # None
                           THEN FirstLineHeading(text.content)[1]
                           ELSE file_stem(path),
                           text.content, time, time, <<>>, None)]

(***************************************************************************)
(* load_notes, first loop: parse every file, repair duplicate ids.         *)
(***************************************************************************)
\* Mutant: the duplicate check is missing.
contains_key_never(ns, id) == FALSE

\* notes.contains_key(&note.id)
contains_key(ns, id) == id \in DOMAIN ns

\* Mutant: a file that fails to parse ends the read loop.
AfterParseError_Abort(order, i) == Len(order) + 1

\* The Err arm of the match on load_note_from_file: log, go on with the
\* next directory entry.
AfterParseError(order, i) == i + 1

RECURSIVE ParseFiles(_, _, _, _, _)
ParseFiles(fs, order, i, acc, time) ==
    IF i > Len(order) THEN acc
    ELSE
        LET path == order[i]
            r == parse_markdown_note(fs[path], path, Uuid(acc.uuid + 1), time)
        IN  IF ~r.ok THEN ParseFiles(fs, order, AfterParseError(order, i), acc, time)
            ELSE
                LET u == acc.uuid + r.uuids
                    dup == contains_key(acc.notes, r.note.id)
                    note == IF dup
                            THEN [r.note EXCEPT !.id = Uuid(u + 1), !.updated_at = time]
                            ELSE r.note
                IN  ParseFiles(fs, order, i + 1,
                        [notes |-> (note.id :> note) @@ acc.notes,
                         duplicate_id_fixes |->
                            IF dup
                            THEN Append(acc.duplicate_id_fixes,
                                        [path |-> path, note |-> note,
                                         old_id |-> r.note.id,
                                         earlier |-> IF r.note.id \in DOMAIN acc.source
                                                     THEN acc.source[r.note.id]
                                                     ELSE path])
                            ELSE acc.duplicate_id_fixes,
                         uuid |-> IF dup THEN u + 1 ELSE u,
                         source |-> (note.id :> path) @@ acc.source],
                        time)

ParseStart(uuid) ==
    [notes |-> EmptyMap, duplicate_id_fixes |-> <<>>, uuid |-> uuid,
     source |-> EmptyMap]

(***************************************************************************)
(* load_notes, position repair.                                            *)
(***************************************************************************)
\* First pass: how many notes claim a (non-negative) position.
position_counts(ns, p) ==
    Cardinality({id \in DOMAIN ns : ns[id].position = Some(p)})

\* Mutant: the repair hands out positions from 0.
InitialNextAvailable_FromZero(ns) == 0

\* First pass: one above the largest non-negative position, 0 if there is none.
InitialNextAvailable(ns) ==
    Max({0} \cup {ns[id].position[1] + 1 :
                    id \in {j \in DOMAIN ns : ns[j].position # None
                                              /\ ns[j].position[1] >= 0}})

\* Mutant: positions claimed twice are not detected.
needs_fix_NoConflicts(note, ns, used_positions) ==
    CASE note.position = None -> TRUE
      [] note.position[1] < 0 -> TRUE
      [] OTHER -> FALSE

needs_fix(note, ns, used_positions) ==
    CASE note.position = None -> TRUE
      [] note.position[1] < 0 -> TRUE
      [] position_counts(ns, note.position[1]) > 1 -> TRUE
      [] note.position[1] \in used_positions -> TRUE
      [] OTHER -> FALSE

\* while used_positions.contains(&next_available_position) { += 1 }
RECURSIVE SkipUsed(_, _)
SkipUsed(used_positions, n) ==
    IF n \in used_positions THEN SkipUsed(used_positions, n + 1) ELSE n

\* Second pass, over the notes in the iteration order of the HashMap.
\* position_counts was computed before the pass, from the map `counted`.
RECURSIVE FixPositions(_, _, _, _, _)
FixPositions(counted, order, i, acc, time) ==
    IF i > Len(order) THEN acc
    ELSE
        LET id == order[i]
            note == acc.notes[id]
        IN  IF needs_fix(note, counted, acc.used_positions)
            THEN
                LET p == SkipUsed(acc.used_positions, acc.next_available_position)
                    fixed == [note EXCEPT !.position = Some(p), !.updated_at = time]
                IN  FixPositions(counted, order, i + 1,
                        [notes |-> [acc.notes EXCEPT ![id] = fixed],
                         used_positions |-> acc.used_positions \cup {p},
                         next_available_position |-> p + 1,
                         position_fixes |-> Append(acc.position_fixes, fixed),
                         trace |-> Append(acc.trace,
                            [id |-> id, old |-> note.position, assigned |-> p,
                             others |-> {acc.notes[j].position[1] :
                                 j \in {k \in DOMAIN acc.notes :
                                     k # id /\ acc.notes[k].position # None}}])],
                        time)
            ELSE
                FixPositions(counted, order, i + 1,
                    [acc EXCEPT !.used_positions = @ \cup {note.position[1]}],
                    time)

FixStart(ns) ==
    [notes |-> ns, used_positions |-> {},
     next_available_position |-> InitialNextAvailable(ns),
     position_fixes |-> <<>>, trace |-> <<>>]

(***************************************************************************)
(* The index: table `notes` of the SQLite database.                        *)
(***************************************************************************)
\* INSERT OR REPLACE with PRIMARY KEY id, UNIQUE file_path, UNIQUE position:
\* every row that conflicts with the new one on any of the three is deleted.
upsert_note(rows, record) ==
    LET kept == {id \in DOMAIN rows :
                    /\ id # record.id
                    /\ rows[id].file_path # record.file_path
                    /\ rows[id].position # record.position}
    IN  [id \in kept \cup {record.id} |->
            IF id = record.id THEN record ELSE rows[id]]

unwrap_or(option, default) == IF option = None THEN default ELSE option[1]

NoteRecord(note) ==
    [id |-> note.id, title |-> note.title,
     file_path |-> MdName(sanitize_filename(note.title)),
     created_at |-> note.created_at, updated_at |-> note.updated_at,
     tags |-> note.tags, position |-> unwrap_or(note.position, 0),
     file_hash |-> compute_file_hash(FileText(note))]

\* update_notes_index: one upsert per note, in the map's iteration order.
RECURSIVE update_notes_index(_, _, _, _)
update_notes_index(rows, ns, order, i) ==
    IF i > Len(order) THEN rows
    ELSE update_notes_index(upsert_note(rows, NoteRecord(ns[order[i]])),
                            ns, order, i + 1)

(***************************************************************************)
(* FileStorageManager::save_note: the file it writes to.  db_ok is whether *)
(* load_notes_index() succeeded.                                           *)
(***************************************************************************)
save_note_path(rows, db_ok, note) ==
    IF db_ok /\ note.id \in DOMAIN rows
    THEN rows[note.id].file_path
    ELSE MdName(sanitize_filename(note.title))

\* The first k of a sequence of file writes [path, text], applied in order.
RECURSIVE ApplyWrites(_, _, _)
ApplyWrites(fs, writes, k) ==
    IF k = 0 THEN fs
    ELSE LET w == writes[k]
             before == ApplyWrites(fs, writes, k - 1)
         IN  (w.path :> w.text) @@ before

(***************************************************************************)
(* FileStorageManager::load_notes.                                         *)
(***************************************************************************)
NoLoad ==
    [called |-> FALSE, at |-> 0, ok |-> FALSE, notes |-> EmptyMap,
     source |-> EmptyMap,
     parsed |-> EmptyMap, duplicates |-> {}, trace |-> <<>>, written |-> {}]

\* The outcome of one call: read_order is the order read_dir yields the
\* files in, iter_order the iteration order of the HashMap, db_ok whether
\* the database can be opened, done how many of the file writes succeed.
\* The result carries, besides the returned map, a trace of the call: the
\* file each note was parsed from (source), the map before the position
\* repair (parsed), the duplicate-id repairs, the position repairs in the
\* order they were made (trace) and the files written.
LoadParse(read_order) ==
    ParseFiles(files, read_order, 1, ParseStart(uuid_count), now)

LoadFix(parsed, iter_order) ==
    FixPositions(parsed.notes, iter_order, 1, FixStart(parsed.notes), now)

LoadWrites(parsed, fixed, db_ok) ==
    [i \in 1..Len(parsed.duplicate_id_fixes) |->
        [path |-> parsed.duplicate_id_fixes[i].path,
         text |-> FileText(parsed.duplicate_id_fixes[i].note)]]
    \o
    [i \in 1..Len(fixed.position_fixes) |->
        [path |-> save_note_path(index, db_ok, fixed.position_fixes[i]),
         text |-> FileText(fixed.position_fixes[i])]]

load_notes(read_order, iter_order, db_ok, done) ==
    LET parsed == LoadParse(read_order)
        fixed == LoadFix(parsed, iter_order)
        writes == LoadWrites(parsed, fixed, db_ok)
        ok == done = Len(writes) /\ db_ok
    IN  [files |-> ApplyWrites(files, writes, done),
         index |-> IF ok THEN update_notes_index(index, fixed.notes, iter_order, 1)
                   ELSE index,
         uuid |-> parsed.uuid,
         result |->
            [called |-> TRUE, at |-> now, ok |-> ok,
             notes |-> IF ok THEN fixed.notes ELSE EmptyMap,
             source |-> parsed.source,
             parsed |-> parsed.notes,
             duplicates |-> {[id |-> parsed.duplicate_id_fixes[i].note.id,
                              old_id |-> parsed.duplicate_id_fixes[i].old_id,
                              earlier |-> parsed.duplicate_id_fixes[i].earlier] :
                                    i \in 1..Len(parsed.duplicate_id_fixes)},
             trace |-> fixed.trace,
             written |-> {writes[i].path : i \in 1..done}]]

LoadOutcomes ==
    UNION {
      UNION {
        UNION {
          {load_notes(read_order, iter_order, db_ok, done) :
             done \in 0..Len(LoadWrites(LoadParse(read_order),
                                        LoadFix(LoadParse(read_order), iter_order),
                                        db_ok))}
          : db_ok \in {TRUE}}
        : iter_order \in Perms(DOMAIN LoadParse(read_order).notes)}
      : read_order \in Perms({p \in DOMAIN files : is_md(p)})}

(***************************************************************************)
(* The load specification: a directory of note files, loaded repeatedly.   *)
(***************************************************************************)
\* The files of the initial directory are a.md and b-.md; a title is "a"
\* (saved as a.md) or "b/" (saved as b-.md); the body of a file is fixed by
\* its name, so that a file overwritten with another note's text shows.
Stems == {<<"a">>, <<"b", "-">>}
FileIds == {"n1", "n2"}
Titles == {<<"a">>, <<"b", "/">>}
StemContent == [s \in Stems |-> IF s = <<"a">> THEN "A" ELSE "B"]
FilePositions == {None} \cup {Some(p) : p \in (0 - 1)..MaxPos}

TextsOf(stem) ==
    {FileText(Note(id, t, StemContent[stem], 0, 0, <<>>, p)) :
        id \in FileIds, t \in Titles, p \in FilePositions}
    \cup {PlainText(StemContent[stem]), PlainText("# b"), MalformedText}

Directories ==
    UNION {
        {d \in [{MdName(s) : s \in present} -> UNION {TextsOf(s) : s \in present}] :
            \A s \in present : d[MdName(s)] \in TextsOf(s)}
        : present \in SUBSET Stems}

NoRequest == [title |-> None, content |-> None, tags |-> None]

\* What a command returned, and what it did: the file writes and index
\* updates it performed and what has_content_changed answered.
Summary(op, id, request, result, content_changed, writes, index_updated) ==
    [op |-> op, id |-> id, request |-> request, result |-> result,
     content_changed |-> content_changed, writes |-> writes,
     index_updated |-> index_updated]

NoSummary == Summary("none", "", NoRequest, "none", FALSE, 0, FALSE)

NoCommand == [seq |-> 0, this |-> NoSummary, prev |-> NoSummary, value |-> <<>>]

\* The record of a command that follows the command recorded in l.
Command(l, summary, value) ==
    [seq |-> l.seq + 1, this |-> summary, prev |-> l.this, value |-> value]

\* The state the application starts in: a notes directory, no index yet,
\* the window records a previous run has saved, nothing in memory.
InitState(directories, persisted) ==
    /\ files \in directories
    /\ index = EmptyMap
    /\ notes = EmptyMap
    /\ content_hashes = EmptyMap
    /\ dirty_flags = EmptyMap
    /\ uuid_count = 0
    /\ now = 1
    /\ load_result = NoLoad
    /\ started = FALSE
    /\ pending = None
    /\ notes_cache = EmptyMap
    /\ last = NoCommand
    /\ detached_windows = EmptyMap
    /\ live_windows = EmptyMap
    /\ windows_file \in persisted
    /\ spatial_files = EmptyMap
    /\ active_windows = EmptyMap
    /\ window_states = EmptyMap
    /\ events = <<>>
    /\ toggle_state = FALSE
    /\ main_visible = TRUE
    /\ tasks = EmptyMap
    /\ notes_lock = None
    /\ windows_lock = None
    /\ config_lock = None
    /\ hashes_lock = None
    /\ flags_lock = None

InitLoad == InitState(Directories, {EmptyMap})

LoadNotes ==
    /\ now <= MaxLoads
    /\ \E out \in LoadOutcomes :
        /\ files' = out.files
        /\ index' = out.index
        /\ uuid_count' = out.uuid
        /\ load_result' = out.result
    /\ now' = now + 1
    /\ UNCHANGED <<notes, content_hashes, dirty_flags, started, pending,
                   notes_cache, last>>
    /\ UNCHANGED winvars

NextLoad == LoadNotes

SpecLoad == InitLoad /\ [][NextLoad]_vars

\* The files load_notes can parse.
Readable(fs) == {p \in DOMAIN fs : is_md(p) /\ fs[p].kind # "malformed"}

(***************************************************************************)
(* The running application: startup, the read commands, reload.            *)
(***************************************************************************)
\* A directory without the defects load_notes repairs: every readable file
\* has frontmatter, the ids are distinct, no position is negative and no two
\* notes share a position.  A note may have no position (Option<i32>).
Consistent(d) ==
    /\ \A p \in Readable(d) :
          /\ d[p].kind = "frontmatter"
          /\ d[p].position # None => d[p].position[1] >= 0
    /\ \A p, q \in Readable(d) :
          p # q => /\ d[p].id # d[q].id
                   /\ d[p].position # None => d[p].position # d[q].position

InitConsistent ==
    /\ InitLoad
    /\ Consistent(files)

\* ModifiedStateTracker::initialize_note for every note of a map.
initialize_notes(hashes, ns) ==
    [id \in DOMAIN hashes \cup DOMAIN ns |->
        IF id \in DOMAIN ns THEN compute_content_hash(ns[id].content)
        ELSE hashes[id]]

remove_keys(map, ids) == [id \in DOMAIN map \ ids |-> map[id]]

\* load_application_data: load the notes, install them in NotesState and
\* initialize the tracker; a failed load installs nothing.
Startup ==
    /\ ~started
    /\ started' = TRUE
    /\ \E out \in LoadOutcomes :
        /\ files' = out.files
        /\ index' = out.index
        /\ uuid_count' = out.uuid
        /\ load_result' = out.result
        /\ IF out.result.ok
           THEN /\ notes' = out.result.notes
                /\ content_hashes' = initialize_notes(content_hashes, out.result.notes)
                /\ dirty_flags' = remove_keys(dirty_flags, DOMAIN out.result.notes)
           ELSE UNCHANGED <<notes, content_hashes, dirty_flags>>
    /\ now' = now + 1
    /\ detached_windows' = windows_file
    /\ events' = Append(events, <<"data-loaded">>)
    /\ UNCHANGED <<pending, notes_cache, last, live_windows, windows_file,
                   spatial_files, active_windows, window_states, taskvars>>

\* The comparator of get_notes: by position, notes without one last, those
\* by created_at, newest first.
SortsBefore(a, b) ==
    CASE a.position # None /\ b.position # None -> a.position[1] < b.position[1]
      [] a.position # None /\ b.position = None -> TRUE
      [] a.position = None /\ b.position # None -> FALSE
      [] OTHER -> b.created_at < a.created_at

\* The orders a stable sort can leave the notes in, whatever order the
\* HashMap yields them in.
SortedOrders(ns) ==
    {o \in Perms(DOMAIN ns) :
        \A i, j \in DOMAIN o : i < j => ~SortsBefore(ns[o[j]], ns[o[i]])}

get_notes ==
    /\ last.seq < MaxOps
    /\ \E o \in SortedOrders(notes) :
        last' = Command(last,
                    Summary("get_notes", "", NoRequest, "ok", FALSE, 0, FALSE),
                    [i \in DOMAIN o |-> notes[o[i]]])
    /\ UNCHANGED <<files, index, notes, content_hashes, dirty_flags, uuid_count,
                   now, load_result, started, pending, notes_cache>>
    /\ UNCHANGED winvars

KnownIds == FileIds \cup {Uuid(1)}

get_note(id) ==
    /\ last.seq < MaxOps
    /\ last' = Command(last,
                    Summary("get_note", id, NoRequest, "ok", FALSE, 0, FALSE),
                    IF id \in DOMAIN notes THEN Some(notes[id]) ELSE None)
    /\ UNCHANGED <<files, index, notes, content_hashes, dirty_flags, uuid_count,
                   now, load_result, started, pending, notes_cache>>
    /\ UNCHANGED winvars

\* reload_notes_from_directory, up to the point where it waits for the
\* notes lock: it holds the config lock and has loaded the directory.
reload_load ==
    /\ pending = None
    /\ now <= MaxLoads
    /\ \E out \in LoadOutcomes :
        /\ files' = out.files
        /\ index' = out.index
        /\ uuid_count' = out.uuid
        /\ load_result' = out.result
        /\ IF out.result.ok
           THEN /\ pending' = Some(out.result.notes)
                /\ last' = last
           ELSE /\ pending' = None
                /\ last' = Command(last,
                        Summary("reload_notes_from_directory", "", NoRequest,
                                "err", FALSE, Cardinality(out.result.written), FALSE),
                        <<>>)
    /\ now' = now + 1
    /\ UNCHANGED <<notes, content_hashes, dirty_flags, started, notes_cache>>
    /\ UNCHANGED winvars

\* reload_notes_from_directory, the rest: replace the note map, clear the
\* tracker and initialize it for every note.
reload_install ==
    /\ pending # None
    /\ notes' = pending[1]
    /\ content_hashes' = initialize_notes(EmptyMap, pending[1])
    /\ dirty_flags' = EmptyMap
    /\ pending' = None
    /\ last' = Command(last,
                    Summary("reload_notes_from_directory", "", NoRequest, "ok",
                            FALSE, Cardinality(load_result.written), TRUE),
                    <<>>)
    /\ UNCHANGED <<files, index, uuid_count, now, load_result, started,
                   notes_cache>>
    /\ UNCHANGED winvars

NextRead ==
    \/ Startup
    \/ get_notes
    \/ \E id \in KnownIds : get_note(id)
    \/ reload_load
    \/ reload_install
    \/ LoadNotes

SpecRead == InitConsistent /\ [][NextRead]_vars

(***************************************************************************)
(* The modified-state tracker.                                             *)
(***************************************************************************)
\* has_content_changed answering true whatever hash is recorded.
has_content_changed_Always(hashes, note_id, new_content) == TRUE

has_content_changed(hashes, note_id, new_content) ==
    IF note_id \in DOMAIN hashes
    THEN hashes[note_id] # compute_content_hash(new_content)
    ELSE TRUE

update_content_hash(hashes, note_id, content) ==
    (note_id :> compute_content_hash(content)) @@ hashes

clear_modified(flags, note_id) == remove_keys(flags, {note_id})

(***************************************************************************)
(* FileNotesStorage::save_note on a storage object made for this one call  *)
(* (save_note_using_file_storage): write the file, then upsert the note    *)
(* into the index.  failure is "none", "write" (the directories cannot be  *)
(* created or the file cannot be written: nothing is written) or "db" (the *)
(* database cannot be opened: the file is written under its title based    *)
(* name and the index update fails).                                       *)
(***************************************************************************)
Failures == {"none", "write", "db"}

save_note_using_file_storage(fs, rows, note, failure) ==
    LET path == save_note_path(rows, failure # "db", note)
    IN  [ok |-> failure = "none",
         files |-> IF failure = "write" THEN fs
                   ELSE (path :> FileText(note)) @@ fs,
         index |-> IF failure = "none" THEN upsert_note(rows, NoteRecord(note))
                   ELSE rows,
         writes |-> IF failure = "write" THEN 0 ELSE 1,
         index_updated |-> failure = "none"]

(***************************************************************************)
(* commands.rs: update_note.                                               *)
(***************************************************************************)
\* Mutant: the tracker is updated before the save is known to have succeeded.
tracker_after_update_BeforeSave(hashes, id, content, content_changed, saved) ==
    IF content_changed THEN update_content_hash(hashes, id, content) ELSE hashes

\* The content hashes update_note leaves: update_content_hash runs only in
\* the content_changed branch, after save_note_using_file_storage returned Ok.
tracker_after_update(hashes, id, content, content_changed, saved) ==
    IF content_changed /\ saved THEN update_content_hash(hashes, id, content)
    ELSE hashes

\* The update requests tried: the body alone (to the body file a.md starts
\* with, or to a new one), the title alone, the tags alone.
Requests ==
    {[title |-> None, content |-> Some("A"), tags |-> None],
     [title |-> None, content |-> Some("C"), tags |-> None],
     [title |-> Some(<<"b", "/">>), content |-> None, tags |-> None],
     [title |-> None, content |-> None, tags |-> Some(<<"t">>)]}

update_note(id, request, failure) ==
    /\ last.seq < MaxOps
    /\ IF id \notin DOMAIN notes
       THEN /\ last' = Command(last,
                    Summary("update_note", id, request, "ok", FALSE, 0, FALSE), None)
            /\ UNCHANGED <<files, index, notes, content_hashes, dirty_flags, now>>
       ELSE
         LET note == notes[id]
             content_changed ==
                 IF request.content # None
                 THEN has_content_changed(content_hashes, id, request.content[1])
                 ELSE FALSE
             title_changed == request.title # None /\ request.title[1] # note.title
             tags_changed == request.tags # None /\ request.tags[1] # note.tags
             updated_note ==
                 [note EXCEPT
                    !.title = IF request.title # None THEN request.title[1] ELSE @,
                    !.content = IF request.content # None THEN request.content[1] ELSE @,
                    !.tags = IF request.tags # None THEN request.tags[1] ELSE @,
                    !.updated_at = now]
             saved == save_note_using_file_storage(files, index, updated_note, failure)
         IN  IF content_changed \/ title_changed \/ tags_changed
             THEN /\ notes' = [notes EXCEPT ![id] = updated_note]
                  /\ files' = saved.files
                  /\ index' = saved.index
                  /\ content_hashes' =
                        tracker_after_update(content_hashes, id, updated_note.content,
                                             content_changed, saved.ok)
                  /\ dirty_flags' = IF content_changed /\ saved.ok
                                    THEN clear_modified(dirty_flags, id)
                                    ELSE dirty_flags
                  /\ now' = now + 1
                  /\ last' = Command(last,
                        Summary("update_note", id, request,
                                IF saved.ok THEN "ok" ELSE "err",
                                content_changed, saved.writes, saved.index_updated),
                        IF saved.ok THEN Some(updated_note) ELSE None)
             ELSE /\ failure = "none"
                  /\ last' = Command(last,
                        Summary("update_note", id, request, "ok", FALSE, 0, FALSE),
                        Some(note))
                  /\ UNCHANGED <<files, index, notes, content_hashes, dirty_flags, now>>
    /\ UNCHANGED <<uuid_count, load_result, started, pending, notes_cache>>
    /\ UNCHANGED winvars

Next ==
    \/ Startup
    \/ \E id \in FileIds, request \in Requests, failure \in Failures :
          update_note(id, request, failure)

Spec == InitConsistent /\ [][Next]_vars

(***************************************************************************)
(* services/note_service.rs: NoteService, behind the *_v2 commands.        *)
(***************************************************************************)
\* NoteService::initialize: load the notes into the cache; a failed load
\* leaves the cache as it was.
NoteService_initialize ==
    /\ now <= MaxLoads
    /\ \E out \in LoadOutcomes :
        /\ files' = out.files
        /\ index' = out.index
        /\ uuid_count' = out.uuid
        /\ load_result' = out.result
        /\ notes_cache' = IF out.result.ok THEN out.result.notes ELSE notes_cache
    /\ now' = now + 1
    /\ UNCHANGED <<notes, content_hashes, dirty_flags, started, pending, last>>
    /\ UNCHANGED winvars

\* NoteService::update_note: apply the request to a copy of the cached note,
\* write it with FileStorageManager::save_note, then replace the cached
\* note.  The tracker is not consulted and the index is not updated.
\* failure is "none", "write" (the file cannot be written) or "db" (the
\* index cannot be read: the file is written under its title based name).
NoteService_update_note(note_id, request, failure) ==
    /\ last.seq < MaxOps
    /\ IF note_id \notin DOMAIN notes_cache
       THEN /\ last' = Command(last,
                    Summary("update_note_v2", note_id, request, "err", FALSE, 0, FALSE),
                    None)
            /\ UNCHANGED <<files, notes_cache, now>>
       ELSE
         LET note ==
                 [notes_cache[note_id] EXCEPT
                    !.title = IF request.title # None THEN request.title[1] ELSE @,
                    !.content = IF request.content # None THEN request.content[1] ELSE @,
                    !.tags = IF request.tags # None THEN request.tags[1] ELSE @,
                    !.updated_at = now]
             path == save_note_path(index, failure # "db", note)
         IN  /\ now' = now + 1
             /\ IF failure = "write"
                THEN /\ last' = Command(last,
                            Summary("update_note_v2", note_id, request, "err",
                                    FALSE, 0, FALSE),
                            None)
                     /\ UNCHANGED <<files, notes_cache>>
                ELSE /\ files' = (path :> FileText(note)) @@ files
                     /\ notes_cache' = (note_id :> note) @@ notes_cache
                     /\ last' = Command(last,
                            Summary("update_note_v2", note_id, request, "ok",
                                    FALSE, 1, FALSE),
                            Some(note))
    /\ UNCHANGED <<index, notes, content_hashes, dirty_flags, uuid_count,
                   load_result, started, pending>>
    /\ UNCHANGED winvars

\* The create requests tried.
CreateRequests ==
    {[title |-> Some(t), content |-> Some("C"), tags |-> Some(<<>>)] : t \in Titles}

\* NoteService::create_note: a note with a fresh id and no position, written
\* with FileStorageManager::save_note, then put into the cache.
NoteService_create_note(request, failure) ==
    /\ last.seq < MaxOps
    /\ LET note == Note(Uuid(uuid_count + 1), request.title[1], request.content[1],
                        now, now, request.tags[1], None)
           path == save_note_path(index, failure # "db", note)
       IN  /\ uuid_count' = uuid_count + 1
           /\ now' = now + 1
           /\ IF failure = "write"
              THEN /\ last' = Command(last,
                          Summary("create_note_v2", note.id, request, "err",
                                  FALSE, 0, FALSE),
                          None)
                   /\ UNCHANGED <<files, notes_cache>>
              ELSE /\ files' = (path :> FileText(note)) @@ files
                   /\ notes_cache' = (note.id :> note) @@ notes_cache
                   /\ last' = Command(last,
                          Summary("create_note_v2", note.id, request, "ok",
                                  FALSE, 1, FALSE),
                          Some(note))
    /\ UNCHANGED <<index, notes, content_hashes, dirty_flags, load_result,
                   started, pending>>
    /\ UNCHANGED winvars

NextService ==
    \/ NoteService_initialize
    \/ \E request \in CreateRequests, failure \in Failures :
          NoteService_create_note(request, failure)
    \/ \E note_id \in FileIds, request \in Requests, failure \in Failures :
          NoteService_update_note(note_id, request, failure)

SpecService == InitConsistent /\ [][NextService]_vars

(***************************************************************************)
(* commands.rs: create_note, delete_note, reorder_notes;                   *)
(* file_operations.rs: import_single_file.                                 *)
(***************************************************************************)
\* FileNotesStorage::save_all_notes on a storage object made for this one
\* call (save_all_notes_using_file_storage): write every note of the map
\* with FileStorageManager::save_note, in the order the HashMap yields
\* them, then upsert them all into the index.  failure is as for
\* save_note_using_file_storage.
save_all_notes_using_file_storage(fs, rows, ns, order, failure) ==
    LET writes == [i \in DOMAIN order |->
                      [path |-> save_note_path(rows, failure # "db", ns[order[i]]),
                       text |-> FileText(ns[order[i]])]]
    IN  [ok |-> failure = "none",
         files |-> IF failure = "write" THEN fs
                   ELSE ApplyWrites(fs, writes, Len(writes)),
         index |-> IF failure = "none" THEN update_notes_index(rows, ns, order, 1)
                   ELSE rows,
         writes |-> IF failure = "write" THEN 0 ELSE Len(writes),
         index_updated |-> failure = "none"]

\* The largest position in the map, -1 when no note has one.
max_position(ns) ==
    Max({ns[id].position[1] : id \in {j \in DOMAIN ns : ns[j].position # None}}
        \cup {0 - 1})

create_note(request, failure) ==
    /\ last.seq < MaxOps
    /\ LET note == Note(Uuid(uuid_count + 1), request.title[1], request.content[1],
                        now, now, request.tags[1], Some(max_position(notes) + 1))
           saved == save_note_using_file_storage(files, index, note, failure)
       IN  /\ uuid_count' = uuid_count + 1
           /\ now' = now + 1
           /\ notes' = (note.id :> note) @@ notes
           /\ files' = saved.files
           /\ index' = saved.index
           /\ content_hashes' =
                 IF saved.ok
                 THEN (note.id :> compute_content_hash(note.content)) @@ content_hashes
                 ELSE content_hashes
           /\ dirty_flags' = IF saved.ok THEN remove_keys(dirty_flags, {note.id})
                             ELSE dirty_flags
           /\ last' = Command(last,
                    Summary("create_note", note.id, request,
                            IF saved.ok THEN "ok" ELSE "err",
                            FALSE, saved.writes, saved.index_updated),
                    IF saved.ok THEN Some(note) ELSE None)
    /\ UNCHANGED <<load_result, started, pending, notes_cache>>
    /\ UNCHANGED winvars

\* FileNotesStorage::delete_note on a storage object made for this one call:
\* FileStorageManager::delete_note removes the file the index entry of the
\* id names, if there is such an entry and such a file; the cache of the
\* new object is empty, so update_notes_index upserts nothing.  failure is
\* "none", "write" (remove_file fails) or "db" (the index cannot be read).
FileNotesStorage_delete_note(fs, rows, note_id, failure) ==
    LET found == note_id \in DOMAIN rows /\ rows[note_id].file_path \in DOMAIN fs
        ok == failure = "none" \/ (failure = "write" /\ ~found)
    IN  [ok |-> ok,
         files |-> IF ok /\ found
                   THEN [p \in DOMAIN fs \ {rows[note_id].file_path} |-> fs[p]]
                   ELSE fs,
         index |-> rows,
         writes |-> IF ok /\ found THEN 1 ELSE 0]

delete_note(id, failure) ==
    /\ last.seq < MaxOps
    /\ IF id \notin DOMAIN notes
       THEN /\ last' = Command(last,
                    Summary("delete_note", id, NoRequest, "ok", FALSE, 0, FALSE),
                    Some(FALSE))
            /\ UNCHANGED <<files, index, notes, content_hashes, dirty_flags>>
       ELSE LET deleted == FileNotesStorage_delete_note(files, index, id, failure)
            IN  /\ notes' = remove_keys(notes, {id})
                /\ files' = deleted.files
                /\ index' = deleted.index
                /\ content_hashes' = IF deleted.ok THEN remove_keys(content_hashes, {id})
                                     ELSE content_hashes
                /\ dirty_flags' = IF deleted.ok THEN remove_keys(dirty_flags, {id})
                                  ELSE dirty_flags
                /\ last' = Command(last,
                        Summary("delete_note", id, NoRequest,
                                IF deleted.ok THEN "ok" ELSE "err",
                                FALSE, deleted.writes, FALSE),
                        IF deleted.ok THEN Some(TRUE) ELSE None)
    /\ UNCHANGED <<uuid_count, now, load_result, started, pending, notes_cache>>
    /\ UNCHANGED winvars

\* note.position = Some(index) for every id of note_ids that is in the map,
\* in list order (positions count from 0).
RECURSIVE reorder_positions(_, _, _)
reorder_positions(ns, note_ids, i) ==
    IF i > Len(note_ids) THEN ns
    ELSE reorder_positions(
            IF note_ids[i] \in DOMAIN ns
            THEN [ns EXCEPT ![note_ids[i]].position = Some(i - 1)]
            ELSE ns,
            note_ids, i + 1)

\* The note_ids arguments tried: empty, partial, complete, and with an id
\* no file carries.
ReorderArgs ==
    {<<>>, <<"n1">>, <<"n2">>, <<"n1", "n2">>, <<"n2", "n1">>, <<Uuid(1), "n1">>}

reorder_notes(note_ids, failure) ==
    /\ last.seq < MaxOps
    /\ LET reordered == reorder_positions(notes, note_ids, 1)
       IN  \E order \in Perms(DOMAIN reordered) :
             LET saved == save_all_notes_using_file_storage(files, index, reordered,
                                                           order, failure)
             IN  /\ notes' = reordered
                 /\ files' = saved.files
                 /\ index' = saved.index
                 /\ last' = Command(last,
                        Summary("reorder_notes", "", NoRequest,
                                IF saved.ok THEN "ok" ELSE "err",
                                FALSE, saved.writes, saved.index_updated),
                        <<>>)
    /\ UNCHANGED <<content_hashes, dirty_flags, uuid_count, now, load_result,
                   started, pending, notes_cache>>
    /\ UNCHANGED winvars

\* file_operations.rs parse_markdown_file: a file with frontmatter gets a
\* fresh id whatever its frontmatter says; a plain file gets the file stem
\* as its title.
parse_markdown_file(text, path, uuid, time) ==
    CASE text.kind = "frontmatter" ->
            [ok |-> TRUE,
             note |-> Note(uuid, text.title, text.content, text.created_at,
                           text.updated_at, text.tags, text.position)]
      [] text.kind = "malformed" -> [ok |-> FALSE, note |-> None]
      [] OTHER ->
            [ok |-> TRUE,
             note |-> Note(uuid, file_stem(path), text.content, time, time, <<>>, None)]

\* The files imported: one with frontmatter, one plain, one malformed.
ImportFiles ==
    {FileText(Note("n1", <<"a">>, "C", 0, 0, <<>>, Some(0))),
     PlainText("C"),
     MalformedText}

\* import_single_file: parse the file, insert the note, save all notes.
\* The tracker is not told.
import_single_file(text, failure) ==
    /\ last.seq < MaxOps
    /\ LET parsed == parse_markdown_file(text, MdName(<<"a">>), Uuid(uuid_count + 1), now)
       IN  IF ~parsed.ok
           THEN /\ last' = Command(last,
                        Summary("import_single_file", "", NoRequest, "err",
                                FALSE, 0, FALSE),
                        None)
                /\ UNCHANGED <<files, index, notes, uuid_count, now>>
           ELSE LET imported == (parsed.note.id :> parsed.note) @@ notes
                IN  \E order \in Perms(DOMAIN imported) :
                      LET saved == save_all_notes_using_file_storage(
                                       files, index, imported, order, failure)
                      IN  /\ notes' = imported
                          /\ files' = saved.files
                          /\ index' = saved.index
                          /\ uuid_count' = uuid_count + 1
                          /\ now' = now + 1
                          /\ last' = Command(last,
                                Summary("import_single_file", parsed.note.id, NoRequest,
                                        IF saved.ok THEN "ok" ELSE "err",
                                        FALSE, saved.writes, saved.index_updated),
                                IF saved.ok THEN Some(parsed.note) ELSE None)
    /\ UNCHANGED <<content_hashes, dirty_flags, load_result, started, pending,
                   notes_cache>>
    /\ UNCHANGED winvars

NextCommands ==
    \/ Startup
    \/ \E request \in CreateRequests, failure \in Failures :
          create_note(request, failure)
    \/ \E id \in FileIds, request \in Requests, failure \in Failures :
          update_note(id, request, failure)
    \/ \E id \in KnownIds, failure \in Failures : delete_note(id, failure)
    \/ \E note_ids \in ReorderArgs, failure \in Failures :
          reorder_notes(note_ids, failure)
    \/ \E text \in ImportFiles, failure \in Failures :
          import_single_file(text, failure)

SpecCommands == InitConsistent /\ [][NextCommands]_vars

(***************************************************************************)
(* Properties of load_notes.                                               *)
(***************************************************************************)
\* This step is a call of load_notes that returned Ok.
LoadReturned == load_result'.at = now /\ load_result'.ok

Positioned(ns) == {id \in DOMAIN ns : ns[id].position # None}

\* The smallest natural number that is not in S.
RECURSIVE LowestUnused(_, _)
LowestUnused(S, n) == IF n \in S THEN LowestUnused(S, n + 1) ELSE n

\* C1: after a successful load_notes() no two notes of the returned map
\* that have a position share it, whatever the files held.
C1_UniquePositions ==
    load_result.ok =>
        \A i, j \in Positioned(load_result.notes) :
            i # j => load_result.notes[i].position # load_result.notes[j].position

\* C1 witness: a load returned after repairing a position claimed twice,
\* a negative position and a missing position.
C1_Witness ==
    /\ load_result.ok
    /\ \E k \in DOMAIN load_result.trace :
          /\ load_result.trace[k].old # None
          /\ load_result.trace[k].old[1] >= 0

\* C2 (as claimed): two files that both claim position 0 come back as one
\* note at position 0 and one at position 1.
C2_OneKeepsZero ==
    [][(/\ LoadReturned
        /\ Cardinality(DOMAIN files) = 2
        /\ \A p \in DOMAIN files :
              files[p].kind = "frontmatter" /\ files[p].position = Some(0))
       => {load_result'.notes[id].position : id \in DOMAIN load_result'.notes}
             = {Some(0), Some(1)}]_vars

\* C3 (as claimed): a load that follows a successful load on the directory
\* the first one left behind repairs nothing: same ids, same positions, no
\* file rewritten.
C3_SecondLoadIsNoop ==
    [][(load_result.ok /\ LoadReturned)
       => /\ files' = files
          /\ load_result'.written = {}
          /\ DOMAIN load_result'.notes = DOMAIN load_result.notes
          /\ \A id \in DOMAIN load_result.notes :
                load_result'.notes[id].position = load_result.notes[id].position]_vars

\* C4 (as claimed): a note whose file carries no position comes back
\* without a position, and the position repair leaves its file alone.
C4_NoPositionUntouched ==
    [][LoadReturned
       => \A id \in DOMAIN load_result'.notes :
            load_result'.parsed[id].position = None
            => /\ load_result'.notes[id].position = None
               /\ \A k \in DOMAIN load_result'.trace : load_result'.trace[k].id # id]_vars

\* C5: the returned map has one entry per readable file and distinct ids;
\* of the files that carry one id the first parsed keeps it, every later
\* one gets a fresh id, and every note still has the body of its own file.
C5_DuplicateIdsRepaired ==
    [][LoadReturned
       => LET r == load_result'
              fileIds == {files[p].id : p \in {q \in Readable(files) :
                                                files[q].kind = "frontmatter"}}
          IN  /\ Cardinality(DOMAIN r.notes) = Cardinality(Readable(files))
              /\ {r.source[id] : id \in DOMAIN r.notes} = Readable(files)
              /\ \A id \in DOMAIN r.notes :
                    /\ r.notes[id].id = id
                    /\ r.notes[id].content = files[r.source[id]].content
              /\ \A id \in DOMAIN r.notes :
                    files[r.source[id]].kind = "frontmatter" =>
                       \/ id = files[r.source[id]].id
                       \/ \E d \in r.duplicates :
                            /\ d.id = id
                            /\ d.old_id = files[r.source[id]].id
                            /\ id \notin fileIds
                            /\ d.old_id \in DOMAIN r.notes
                            /\ r.source[d.old_id] = d.earlier
                            /\ files[d.earlier].id = d.old_id
              /\ \A f \in fileIds : f \in DOMAIN r.notes]_vars

\* C5 witness: a load returned after giving a new id to a copied file.
C5_Witness == load_result.ok /\ load_result.duplicates # {}

\* The notes load_notes repaired (new id or new position).
Repaired(r) ==
    {d.id : d \in r.duplicates} \cup {r.trace[k].id : k \in DOMAIN r.trace}

\* C6 (as claimed): every repaired note is written back to the file it was
\* parsed from with its body unchanged, no file is added and no other
\* note's file is touched.
C6_RepairRewritesOwnFile ==
    [][LoadReturned
       => LET r == load_result'
          IN  /\ \A id \in Repaired(r) :
                    /\ files'[r.source[id]] = FileText(r.notes[id])
                    /\ r.notes[id].content = files[r.source[id]].content
              /\ DOMAIN files' = DOMAIN files
              /\ \A p \in DOMAIN files :
                    p \notin {r.source[id] : id \in Repaired(r)}
                    => files'[p] = files[p]]_vars

PositionZero(ns) ==
    {[id |-> ns[i].id, content |-> ns[i].content] :
        i \in {j \in DOMAIN ns : ns[j].position = Some(0)}}

PositionZeroOnDisk(fs) ==
    {[id |-> fs[p].id, content |-> fs[p].content] :
        p \in {q \in Readable(fs) :
                  fs[q].kind = "frontmatter" /\ fs[q].position = Some(0)}}

\* C8: get_notes, get_note and loading a consistent directory (at startup,
\* through reload or directly), in any number and interleaving, leave the id
\* and the content of the note at position 0 as they are, on disk and in
\* the note map; get_notes lists that note first and get_note returns the
\* stored note.
C8_ReadsKeepPositionZero ==
    [][/\ PositionZeroOnDisk(files) # {}
          => PositionZeroOnDisk(files') = PositionZeroOnDisk(files)
       /\ PositionZero(notes) # {} => PositionZero(notes') = PositionZero(notes)
       /\ (last'.seq # last.seq /\ last'.this.op = "get_notes"
              /\ PositionZero(notes) # {})
          => [id |-> last'.value[1].id, content |-> last'.value[1].content]
                \in PositionZero(notes)
       /\ (last'.seq # last.seq /\ last'.this.op = "get_note")
          => last'.value = IF last'.this.id \in DOMAIN notes
                           THEN Some(notes[last'.this.id]) ELSE None]_vars

(***************************************************************************)
(* Properties of update_note and the tracker.                              *)
(***************************************************************************)
\* The last two commands were calls of the same update command (update_note
\* or update_note_v2) with the same arguments.
RepeatedUpdate ==
    /\ last.this.op \in {"update_note", "update_note_v2"}
    /\ last.prev.op = last.this.op
    /\ last.this.id = last.prev.id
    /\ last.this.request = last.prev.request

\* C9: when a note is saved twice in a row with the same request, whose
\* content the first call wrote, the second call writes no file and updates
\* no index, and the tracker does not report the content as changed.
C9_SecondSaveWritesNothing ==
    (/\ RepeatedUpdate
     /\ last.prev.result = "ok"
     /\ last.prev.request.content # None
     /\ last.prev.writes = 1)
    => /\ ~last.this.content_changed
       /\ last.this.writes = 0
       /\ ~last.this.index_updated

\* C10: update_note changes the tracker only when the save succeeded; after
\* a failed save the hashes and flags are as before, and a further attempt
\* with the same content is again reported as changed.
C10_TrackerOnlyAfterSave ==
    [][(last'.seq # last.seq /\ last'.this.op = "update_note")
       => /\ (content_hashes' # content_hashes \/ dirty_flags' # dirty_flags)
             => /\ last'.this.result = "ok"
                /\ last'.this.writes = 1
                /\ last'.this.index_updated
                /\ last'.this.content_changed
          /\ last'.this.result = "err"
             => content_hashes' = content_hashes /\ dirty_flags' = dirty_flags
          /\ (/\ last.this.op = "update_note"
              /\ last.this.result = "err"
              /\ last.this.content_changed
              /\ last'.this.id = last.this.id
              /\ last'.this.request.content = last.this.request.content)
             => last'.this.content_changed]_vars

\* C10 witness: a save failed for changed content and the same update was
\* tried again.
C10_Witness ==
    /\ RepeatedUpdate
    /\ last.this.op = "update_note"
    /\ last.prev.result = "err"
    /\ last.prev.content_changed
    /\ last.this.content_changed

IndexMirrors(rows, ns) ==
    /\ DOMAIN rows = DOMAIN ns
    /\ \A id \in DOMAIN ns : Some(rows[id].position) = ns[id].position

\* C16 (as claimed): after load_notes() returned Ok the index mirrors the
\* returned note map: one entry per note id with the note's position, no
\* entry for any other id.
C16_IndexMirrorsNoteMap ==
    load_result.ok => IndexMirrors(index, load_result.notes)

(***************************************************************************)
(* windows.rs create_detached_window and                                   *)
(* WindowService::create_detached_window.  Lengths are whole pixels, the   *)
(* opacity is in percent.                                                  *)
(***************************************************************************)
DetachedWindow(note_id, window_label, position, size, original_height) ==
    [note_id |-> note_id, window_label |-> window_label, position |-> position,
     size |-> size, always_on_top |-> FALSE, opacity |-> 100,
     is_shaded |-> FALSE, original_height |-> original_height]

\* format!("note-{}", note_id): the prefix and the id.
note_label(note_id) == <<"note", note_id>>

\* A webview window the builder has built.
\* listener is the notification its on_window_event closure emits when the
\* window is destroyed, "none" without such a closure.
LiveWindow(position, size) ==
    [position |-> position, size |-> size, visible |-> TRUE, listener |-> "none"]

Listening(window, listener) == [window EXCEPT !.listener = listener]

\* CreateDetachedWindowRequest: with and without a position.
WindowRequests ==
    {[note_id |-> id, x |-> xy, y |-> xy, width |-> None, height |-> None] :
        id \in KnownIds, xy \in {None, Some(100), Some(130)}}

\* What can fail in the host runtime and on disk: building the window,
\* showing it, writing the window state.
WindowFailures == {"none", "build", "show", "save"}

Abs(n) == IF n < 0 THEN 0 - n ELSE n

\* load_spatial_data: spatial_{note_id}.json, if there is one.
load_spatial_data(note_id) ==
    IF note_id \in DOMAIN spatial_files THEN Some(spatial_files[note_id]) ELSE None

\* The position create_detached_window gives the window: the requested one,
\* else the saved one, else 100 + 30 per window there is; 30 further right
\* and down when a recorded window is less than 50 away on both axes.
window_position(request, saved, windows) ==
    LET xy == IF request.x # None /\ request.y # None
              THEN <<request.x[1], request.y[1]>>
              ELSE IF saved # None THEN saved[1].position
              ELSE <<100 + Cardinality(DOMAIN windows) * 30,
                     100 + Cardinality(DOMAIN windows) * 30>>
        needs_offset == \E l \in DOMAIN windows :
                           /\ Abs(windows[l].position[1] - xy[1]) < 50
                           /\ Abs(windows[l].position[2] - xy[2]) < 50
    IN  IF needs_offset THEN <<xy[1] + 30, xy[2] + 30>> ELSE xy

window_size(request, saved) ==
    <<IF request.width # None THEN request.width[1]
      ELSE IF saved # None THEN saved[1].size[1] ELSE 800,
      IF request.height # None THEN request.height[1]
      ELSE IF saved # None THEN saved[1].size[2] ELSE 600>>

\* What create_detached_window does to the window state: the result, the
\* returned record, the record map, the live windows and the persisted file.
create_outcome(request, failure, known, windows, live, file) ==
    LET closed == remove_keys(live, {<<"drag-ghost">>})
        label == note_label(request.note_id)
        saved == load_spatial_data(request.note_id)
        position == window_position(request, saved, windows)
        size == window_size(request, saved)
        record == DetachedWindow(request.note_id, label, position, size, None)
        built == (label :> LiveWindow(position, size)) @@ closed
        Outcome(result, value, w, l, f) ==
            [result |-> result, value |-> value, windows |-> w, live |-> l,
             file |-> f]
    IN  IF request.note_id \notin known
        THEN Outcome("err", None, windows, closed, file)
        ELSE IF \E l \in DOMAIN windows :
                   /\ l[1] = "note"
                   /\ windows[l].note_id = request.note_id
        THEN Outcome("err", None, windows, closed, file)
        ELSE IF failure = "build" \/ label \in DOMAIN closed
        THEN Outcome("err", None, windows, closed, file)
        ELSE IF failure = "show"
        THEN Outcome("err", None, windows, built, file)
        ELSE IF failure = "save"
        THEN Outcome("err", None, (label :> record) @@ windows, built, file)
        ELSE Outcome("ok", Some(record), (label :> record) @@ windows,
                     (label :> Listening(built[label], "window-destroyed"))
                         @@ built,
                     (label :> record) @@ windows)

create_detached_window(request, failure) ==
    /\ last.seq < MaxOps
    /\ LET outcome == create_outcome(request, failure, DOMAIN notes,
                                     detached_windows, live_windows, windows_file)
       IN  /\ last' = Command(last,
                          Summary("create_detached_window", request.note_id,
                                  NoRequest, outcome.result, FALSE, 0, FALSE),
                          outcome.value)
           /\ detached_windows' = outcome.windows
           /\ live_windows' = outcome.live
           /\ windows_file' = outcome.file
    /\ UNCHANGED <<files, index, notes, content_hashes, dirty_flags, uuid_count,
                   now, load_result, started, pending, notes_cache,
                   spatial_files, active_windows, window_states, events,
                   taskvars>>

\* types/workspace.rs WindowState as WindowService makes it.
WindowState(note_id, custom_position, size, time) ==
    [note_id |-> note_id, grid_position |-> None,
     custom_position |-> custom_position, size |-> size, last_focused |-> time,
     is_detached |-> TRUE, always_on_top |-> FALSE, opacity |-> 100]

\* WindowService::create_detached_window (command create_detached_window_v2):
\* it looks at active_windows only, builds the window, records it and saves
\* the window state.
WindowService_create_detached_window(request, failure) ==
    /\ last.seq < MaxOps
    /\ LET label == note_label(request.note_id)
           custom_position == IF request.x # None /\ request.y # None
                              THEN Some(<<request.x[1], request.y[1]>>)
                              ELSE None
           position == unwrap_or(custom_position, <<100, 100>>)
           size == <<unwrap_or(request.width, 800), unwrap_or(request.height, 600)>>
           window_state == WindowState(request.note_id, custom_position, size, now)
           record == DetachedWindow(request.note_id, label, position, size,
                                    Some(size[2]))
           Returns(result, value) ==
               last' = Command(last,
                          Summary("create_detached_window_v2", request.note_id,
                                  NoRequest, result, FALSE, 0, FALSE),
                          value)
       IN  IF request.note_id \in DOMAIN active_windows
           THEN /\ Returns("err", None)
                /\ UNCHANGED <<live_windows, active_windows, window_states>>
           ELSE IF failure = "build" \/ label \in DOMAIN live_windows
           THEN /\ Returns("err", None)
                /\ UNCHANGED <<live_windows, active_windows, window_states>>
           ELSE /\ live_windows' = (label :> LiveWindow(position, size)) @@ live_windows
                /\ active_windows' = (request.note_id :> record) @@ active_windows
                /\ IF failure = "save"
                   THEN /\ Returns("err", None)
                        /\ UNCHANGED window_states
                   ELSE /\ Returns("ok", Some(record))
                        /\ window_states' =
                              (request.note_id :> window_state) @@ window_states
    /\ now' = now + 1
    /\ UNCHANGED <<files, index, notes, content_hashes, dirty_flags, uuid_count,
                   load_result, started, pending, notes_cache, detached_windows,
                   windows_file, spatial_files, events, taskvars>>

NextWindows ==
    \/ Startup
    \/ \E request \in WindowRequests, failure \in WindowFailures :
          create_detached_window(request, failure)
    \/ \E request \in WindowRequests, failure \in WindowFailures \ {"show"} :
          WindowService_create_detached_window(request, failure)

SpecWindows == InitConsistent /\ [][NextWindows]_vars

(***************************************************************************)
(* windows.rs: the drag windows, closing, and the host destroying a        *)
(* window.                                                                 *)
(***************************************************************************)
\* The directory of the window specifications: two notes, nothing to repair.
TwoNotes ==
    (MdName(<<"a">>) :> FileText(Note("n1", <<"a">>, "A", 0, 0, <<>>, Some(0))))
    @@ (MdName(<<"b", "-">>) :> FileText(Note("n2", <<"b", "/">>, "B", 0, 0, <<>>, Some(1))))

\* format!("hybrid-drag-{}", note_id): the prefix and the id.
hybrid_label(note_id) == <<"hybrid-drag", note_id>>

\* What a previous run can have left in detached_windows.json: nothing, the
\* window of n2, or that and a drag window of n1 that was dropped.
PersistedWindows ==
    LET w2 == note_label("n2") :>
                  DetachedWindow("n2", note_label("n2"), <<130, 130>>, <<800, 600>>, None)
        h1 == hybrid_label("n1") :>
                  DetachedWindow("n1", hybrid_label("n1"), <<100, 100>>, <<400, 300>>, None)
    IN  {EmptyMap, w2, w2 @@ h1}

InitWindows == InitState({TwoNotes}, PersistedWindows)

\* The labels of the windows of the notes.
WindowLabels ==
    {note_label(id) : id \in FileIds} \cup {hybrid_label(id) : id \in FileIds}

\* The notification the listener of a window emits when the window is
\* destroyed: the note id for a note window, the label for a drag window.
DestroyedEvents(live, label) ==
    IF label \notin DOMAIN live \/ live[label].listener = "none" THEN <<>>
    ELSE IF live[label].listener = "window-destroyed"
    THEN << <<"window-destroyed", label[2]>> >>
    ELSE << <<live[label].listener, label>> >>

\* A window command that touches neither notes nor WindowService.
WindowCommand(op, id, result, value) ==
    /\ last' = Command(last, Summary(op, id, NoRequest, result, FALSE, 0, FALSE),
                       value)
    /\ UNCHANGED <<files, index, notes, content_hashes, dirty_flags, uuid_count,
                   now, load_result, started, pending, notes_cache,
                   spatial_files, active_windows, window_states, taskvars>>

create_hybrid_drag_window(note_id, hidden, failure) ==
    /\ last.seq < MaxWinOps
    /\ LET label == hybrid_label(note_id)
           window == Listening([LiveWindow(<<100, 100>>, <<400, 300>>)
                                   EXCEPT !.visible = ~hidden],
                               "hybrid-window-destroyed")
       IN  IF failure = "build" \/ label \in DOMAIN live_windows
           THEN /\ WindowCommand("create_hybrid_drag_window", note_id, "err", None)
                /\ UNCHANGED live_windows
           ELSE /\ live_windows' = (label :> window) @@ live_windows
                /\ WindowCommand("create_hybrid_drag_window", note_id,
                                 IF failure = "show" THEN "err" ELSE "ok",
                                 IF failure = "show" THEN None ELSE Some(label))
    /\ UNCHANGED <<detached_windows, windows_file, events>>

finalize_hybrid_drag_window(window_label, note_id, failure) ==
    /\ last.seq < MaxWinOps
    /\ LET record == DetachedWindow(note_id, window_label,
                                    live_windows[window_label].position,
                                    live_windows[window_label].size, None)
           Returns(result) ==
               WindowCommand("finalize_hybrid_drag_window", note_id, result, None)
       IN  IF window_label \notin DOMAIN live_windows \/ failure = "host"
           THEN /\ Returns("err")
                /\ UNCHANGED <<detached_windows, windows_file, events>>
           ELSE /\ detached_windows' = (window_label :> record) @@ detached_windows
                /\ IF failure = "save"
                   THEN /\ Returns("err")
                        /\ UNCHANGED <<windows_file, events>>
                   ELSE /\ windows_file' = detached_windows'
                        /\ IF failure = "emit"
                           THEN /\ Returns("err")
                                /\ UNCHANGED events
                           ELSE /\ Returns("ok")
                                /\ events' = Append(events, <<"window-created", note_id>>)
    /\ UNCHANGED live_windows

close_detached_window(note_id, failure) ==
    /\ last.seq < MaxWinOps
    /\ LET found == {l \in DOMAIN detached_windows :
                        detached_windows[l].note_id = note_id}
           Returns(result, value) ==
               WindowCommand("close_detached_window", note_id, result, value)
       IN  IF found = {}
           THEN /\ Returns("ok", Some(FALSE))
                /\ UNCHANGED <<detached_windows, live_windows, windows_file, events>>
           ELSE \E window_label \in found :
                  IF window_label \in DOMAIN live_windows /\ failure = "close"
                  THEN /\ Returns("err", None)
                       /\ UNCHANGED <<detached_windows, live_windows, windows_file,
                                      events>>
                  ELSE /\ live_windows' = remove_keys(live_windows, {window_label})
                       /\ detached_windows' = remove_keys(detached_windows, {window_label})
                       /\ IF failure = "save"
                          THEN /\ Returns("err", None)
                               /\ events' = events \o DestroyedEvents(live_windows,
                                                                      window_label)
                               /\ UNCHANGED windows_file
                          ELSE /\ windows_file' = detached_windows'
                               /\ IF failure = "emit"
                                  THEN /\ Returns("err", None)
                                       /\ events' = events
                                             \o DestroyedEvents(live_windows, window_label)
                                  ELSE /\ Returns("ok", Some(TRUE))
                                       /\ events' = Append(
                                             events \o DestroyedEvents(live_windows,
                                                                       window_label),
                                             <<"window-closed", note_id>>)

\* The host destroys a window (the user closes it, the window crashes)
\* without any command being called; its listener, if any, emits.
DestroyWindow(window_label) ==
    /\ window_label \in DOMAIN live_windows
    /\ live_windows' = remove_keys(live_windows, {window_label})
    /\ events' = events \o DestroyedEvents(live_windows, window_label)
    /\ UNCHANGED <<files, index, notes, content_hashes, dirty_flags, uuid_count,
                   now, load_result, started, pending, notes_cache, last,
                   detached_windows, windows_file, spatial_files, active_windows,
                   window_states, taskvars>>

(***************************************************************************)
(* windows.rs: the passes that reconcile the window records with the live  *)
(* windows.                                                                *)
(***************************************************************************)
\* The records without a live window.
stale_windows(windows, live) == {l \in DOMAIN windows : l \notin DOMAIN live}

cleanup_stale_windows(failure) ==
    /\ last.seq < MaxWinOps
    /\ LET stale == stale_windows(detached_windows, live_windows)
           saved == stale = {} \/ failure # "save"
       IN  /\ detached_windows' = remove_keys(detached_windows, stale)
           /\ windows_file' = IF stale # {} /\ saved THEN detached_windows'
                              ELSE windows_file
           /\ WindowCommand("cleanup_stale_windows", "",
                            IF saved THEN "ok" ELSE "err",
                            IF saved THEN Some(Cardinality(stale)) ELSE None)
    /\ UNCHANGED <<live_windows, events>>

\* The loop of restore_detached_windows over the records in the order the
\* HashMap yields them, from the i-th on: a hidden live window is shown, a
\* record without a live window is noted for removal; a show() that fails
\* returns from the command at once.
RECURSIVE restore_loop(_, _, _, _, _, _, _)
restore_loop(windows, order, i, live, restored, to_remove, failure) ==
    IF i > Len(order)
    THEN [ok |-> TRUE, live |-> live, restored |-> restored, to_remove |-> to_remove]
    ELSE LET l == order[i]
         IN  IF l \notin DOMAIN live
             THEN restore_loop(windows, order, i + 1, live, restored,
                               to_remove \cup {l}, failure)
             ELSE IF live[l].visible
             THEN restore_loop(windows, order, i + 1, live, restored, to_remove,
                               failure)
             ELSE IF failure = "show"
             THEN [ok |-> FALSE, live |-> live, restored |-> restored,
                   to_remove |-> to_remove]
             ELSE restore_loop(windows, order, i + 1,
                               [live EXCEPT ![l].visible = TRUE],
                               Append(restored, l), to_remove, failure)

restore_detached_windows(failure) ==
    /\ last.seq < MaxWinOps
    /\ \E order \in Perms(DOMAIN detached_windows) :
         LET loop == restore_loop(detached_windows, order, 1, live_windows, <<>>,
                                  {}, failure)
             saved == loop.restored = <<>> \/ failure # "save"
         IN  /\ live_windows' = loop.live
             /\ detached_windows' = IF loop.ok
                                    THEN remove_keys(detached_windows, loop.to_remove)
                                    ELSE detached_windows
             /\ windows_file' = IF loop.ok /\ loop.restored # <<>> /\ saved
                                THEN detached_windows' ELSE windows_file
             /\ WindowCommand("restore_detached_windows", "",
                              IF loop.ok /\ saved THEN "ok" ELSE "err",
                              IF loop.ok /\ saved THEN Some(loop.restored) ELSE None)
    /\ UNCHANGED events

cleanup_destroyed_window(note_id, failure) ==
    /\ last.seq < MaxWinOps
    /\ LET removed == note_label(note_id) \in DOMAIN detached_windows
           saved == ~removed \/ failure # "save"
       IN  /\ detached_windows' = remove_keys(detached_windows, {note_label(note_id)})
           /\ windows_file' = IF removed /\ saved THEN detached_windows'
                              ELSE windows_file
           /\ WindowCommand("cleanup_destroyed_window", note_id,
                            IF saved THEN "ok" ELSE "err", None)
    /\ UNCHANGED <<live_windows, events>>

\* recreate_missing_windows: every record that is not of a drag window and
\* has no live window gets a window of the recorded size at (100, 100); a
\* build that fails is reported and the loop goes on.  The records of drag
\* windows are then removed from the map; nothing is saved.
recreate_missing_windows(failure) ==
    /\ last.seq < MaxWinOps
    /\ LET windows_to_recreate ==
               {l \in stale_windows(detached_windows, live_windows) :
                   l[1] # "hybrid-drag"}
           hybrid_windows == {l \in DOMAIN detached_windows : l[1] = "hybrid-drag"}
           built == IF failure = "build" THEN {} ELSE windows_to_recreate
       IN  /\ live_windows' =
                 [l \in built |-> LiveWindow(<<100, 100>>, detached_windows[l].size)]
                 @@ live_windows
           /\ detached_windows' = remove_keys(detached_windows, hybrid_windows)
           /\ WindowCommand("recreate_missing_windows", "", "ok", Some(built))
    /\ UNCHANGED <<windows_file, events>>

\* The loop of cleanup_stale_hybrid_windows over the records of drag windows:
\* close the live window, remove the record; a close() that fails returns
\* from the command at once.
RECURSIVE hybrid_loop(_, _, _, _, _, _)
hybrid_loop(order, i, live, windows, emitted, failure) ==
    IF i > Len(order)
    THEN [ok |-> TRUE, live |-> live, windows |-> windows, emitted |-> emitted]
    ELSE LET l == order[i]
         IN  IF l \in DOMAIN live /\ failure = "close"
             THEN [ok |-> FALSE, live |-> live, windows |-> windows,
                   emitted |-> emitted]
             ELSE hybrid_loop(order, i + 1, remove_keys(live, {l}),
                              remove_keys(windows, {l}),
                              emitted \o DestroyedEvents(live, l), failure)

cleanup_stale_hybrid_windows(failure) ==
    /\ last.seq < MaxWinOps
    /\ \E order \in Perms({l \in DOMAIN detached_windows : l[1] = "hybrid-drag"}) :
         LET loop == hybrid_loop(order, 1, live_windows, detached_windows, <<>>,
                                 failure)
             saved == loop.ok /\ failure # "save"
         IN  /\ live_windows' = loop.live
             /\ detached_windows' = loop.windows
             /\ events' = events \o loop.emitted
             /\ windows_file' = IF saved THEN detached_windows' ELSE windows_file
             /\ WindowCommand("cleanup_stale_hybrid_windows", "",
                              IF saved THEN "ok" ELSE "err", None)

NextLifecycle ==
    \/ Startup
    \/ \E id \in FileIds, failure \in {"none", "save"} :
          create_detached_window(
              [note_id |-> id, x |-> None, y |-> None, width |-> None,
               height |-> None], failure)
    \/ \E id \in FileIds, hidden \in BOOLEAN, failure \in {"none", "build", "show"} :
          create_hybrid_drag_window(id, hidden, failure)
    \/ \E id \in FileIds, failure \in {"none", "host", "save", "emit"} :
          finalize_hybrid_drag_window(hybrid_label(id), id, failure)
    \/ \E id \in FileIds, failure \in {"none", "close", "save", "emit"} :
          close_detached_window(id, failure)
    \/ \E l \in WindowLabels : DestroyWindow(l)
    \/ \E failure \in {"none", "save"} : cleanup_stale_windows(failure)
    \/ \E failure \in {"none", "show", "save"} : restore_detached_windows(failure)
    \/ \E id \in FileIds, failure \in {"none", "save"} :
          cleanup_destroyed_window(id, failure)
    \/ \E failure \in {"none", "build"} : recreate_missing_windows(failure)
    \/ \E failure \in {"none", "close", "save"} :
          cleanup_stale_hybrid_windows(failure)

SpecLifecycle == InitWindows /\ [][NextLifecycle]_vars

(***************************************************************************)
(* windows.rs: moving, resizing and shading a window; WindowService:       *)
(* closing and moving.                                                     *)
(***************************************************************************)
update_detached_window_position(window_label, x, y, failure) ==
    /\ last.seq < MaxWinOps
    /\ LET found == window_label \in DOMAIN detached_windows
           saved == ~found \/ failure # "save"
       IN  /\ detached_windows' =
                 IF found
                 THEN [detached_windows EXCEPT ![window_label].position = <<x, y>>]
                 ELSE detached_windows
           /\ windows_file' = IF found /\ saved THEN detached_windows'
                              ELSE windows_file
           /\ WindowCommand("update_detached_window_position", window_label,
                            IF saved THEN "ok" ELSE "err", Some(<<x, y>>))
    /\ UNCHANGED <<live_windows, events>>

update_detached_window_size(window_label, width, height, failure) ==
    /\ last.seq < MaxWinOps
    /\ LET found == window_label \in DOMAIN detached_windows
           saved == ~found \/ failure # "save"
       IN  /\ detached_windows' =
                 IF found
                 THEN [detached_windows EXCEPT ![window_label].size = <<width, height>>]
                 ELSE detached_windows
           /\ windows_file' = IF found /\ saved THEN detached_windows'
                              ELSE windows_file
           /\ WindowCommand("update_detached_window_size", window_label,
                            IF saved THEN "ok" ELSE "err", Some(<<width, height>>))
    /\ UNCHANGED <<live_windows, events>>

\* The height of a shaded window.
ShadedHeight == 48

\* toggle_window_shade.  failure is "none", "inner_size", "set_size" or
\* "save".  Shading writes original_height and is_shaded into the record
\* before it resizes the window.
toggle_window_shade(window_label, failure) ==
    /\ last.seq < MaxWinOps
    /\ LET window_data == detached_windows[window_label]
           current_size == live_windows[window_label].size
           Returns(result, value) ==
               WindowCommand("toggle_window_shade", window_label, result, value)
       IN  IF \/ window_label \notin DOMAIN detached_windows
              \/ window_label \notin DOMAIN live_windows
              \/ failure = "inner_size"
           THEN /\ Returns("err", None)
                /\ UNCHANGED <<detached_windows, live_windows, windows_file>>
           ELSE IF window_data.is_shaded
           THEN IF window_data.original_height = None
                THEN /\ windows_file' = IF failure = "save" THEN windows_file
                                        ELSE detached_windows
                     /\ Returns(IF failure = "save" THEN "err" ELSE "ok",
                                IF failure = "save" THEN None ELSE Some(TRUE))
                     /\ UNCHANGED <<detached_windows, live_windows>>
                ELSE IF failure = "set_size"
                THEN /\ Returns("err", None)
                     /\ UNCHANGED <<detached_windows, live_windows, windows_file>>
                ELSE /\ live_windows' =
                           [live_windows EXCEPT ![window_label].size =
                               <<current_size[1], window_data.original_height[1]>>]
                     /\ detached_windows' =
                           [detached_windows EXCEPT
                               ![window_label].is_shaded = FALSE,
                               ![window_label].original_height = None,
                               ![window_label].size =
                                   <<window_data.size[1], window_data.original_height[1]>>]
                     /\ windows_file' = IF failure = "save" THEN windows_file
                                        ELSE detached_windows'
                     /\ Returns(IF failure = "save" THEN "err" ELSE "ok",
                                IF failure = "save" THEN None ELSE Some(FALSE))
           ELSE /\ detached_windows' =
                      [detached_windows EXCEPT
                          ![window_label].original_height = Some(current_size[2]),
                          ![window_label].is_shaded = TRUE]
                /\ IF failure = "set_size"
                   THEN /\ Returns("err", None)
                        /\ UNCHANGED <<live_windows, windows_file>>
                   ELSE /\ live_windows' =
                              [live_windows EXCEPT ![window_label].size =
                                  <<current_size[1], ShadedHeight>>]
                        /\ windows_file' = IF failure = "save" THEN windows_file
                                           ELSE detached_windows'
                        /\ Returns(IF failure = "save" THEN "err" ELSE "ok",
                                   IF failure = "save" THEN None ELSE Some(TRUE))
    /\ UNCHANGED events

\* A WindowService command.  failure "load" is a workspace.json that cannot
\* be read, "save" one that cannot be written.
ServiceCommand(op, id, result, value) ==
    /\ last' = Command(last, Summary(op, id, NoRequest, result, FALSE, 0, FALSE),
                       value)
    /\ UNCHANGED <<files, index, notes, content_hashes, dirty_flags, uuid_count,
                   now, load_result, started, pending, notes_cache,
                   detached_windows, windows_file, spatial_files, taskvars>>

\* WindowService::close_detached_window (command close_detached_window_v2).
WindowService_close_detached_window(note_id, failure) ==
    /\ last.seq < MaxWinOps
    /\ LET window_label == note_label(note_id)
           loaded == failure # "load" /\ note_id \in DOMAIN window_states
       IN  IF window_label \in DOMAIN live_windows /\ failure = "close"
           THEN /\ ServiceCommand("close_detached_window_v2", note_id, "err", None)
                /\ UNCHANGED <<live_windows, active_windows, window_states, events>>
           ELSE /\ live_windows' = remove_keys(live_windows, {window_label})
                /\ events' = events \o DestroyedEvents(live_windows, window_label)
                /\ active_windows' = remove_keys(active_windows, {note_id})
                /\ window_states' =
                      IF loaded /\ failure # "save"
                      THEN [window_states EXCEPT ![note_id].is_detached = FALSE]
                      ELSE window_states
                /\ ServiceCommand("close_detached_window_v2", note_id,
                                  IF loaded /\ failure = "save" THEN "err" ELSE "ok",
                                  IF loaded /\ failure = "save" THEN None
                                  ELSE Some(TRUE))

\* WindowService::update_window_position.
WindowService_update_window_position(note_id, x, y, failure) ==
    /\ last.seq < MaxWinOps
    /\ LET loaded == failure # "load" /\ note_id \in DOMAIN window_states
       IN  /\ active_windows' =
                 IF note_id \in DOMAIN active_windows
                 THEN [active_windows EXCEPT ![note_id].position = <<x, y>>]
                 ELSE active_windows
           /\ window_states' =
                 IF loaded /\ failure # "save"
                 THEN [window_states EXCEPT ![note_id].custom_position = Some(<<x, y>>)]
                 ELSE window_states
           /\ ServiceCommand("update_window_position", note_id,
                             IF loaded /\ failure = "save" THEN "err" ELSE "ok",
                             Some(<<x, y>>))
    /\ UNCHANGED <<live_windows, events>>

\* The window requests without a position.
PlainRequest(id) ==
    [note_id |-> id, x |-> None, y |-> None, width |-> None, height |-> None]

NextGeometry ==
    \/ Startup
    \/ \E id \in FileIds, failure \in {"none", "save"} :
          create_detached_window(PlainRequest(id), failure)
    \/ \E id \in FileIds, failure \in {"none", "save"} :
          WindowService_create_detached_window(PlainRequest(id), failure)
    \/ \E id \in FileIds, failure \in {"none", "close", "save", "emit"} :
          close_detached_window(id, failure)
    \/ \E id \in FileIds, failure \in {"none", "close", "load", "save"} :
          WindowService_close_detached_window(id, failure)
    \/ \E id \in FileIds, failure \in {"none", "save"} :
          update_detached_window_position(note_label(id), 160, 160, failure)
    \/ \E id \in FileIds, failure \in {"none", "save"} :
          update_detached_window_size(note_label(id), 640, 480, failure)
    \/ \E id \in FileIds, failure \in {"none", "inner_size", "set_size", "save"} :
          toggle_window_shade(note_label(id), failure)
    \/ \E id \in FileIds, failure \in {"none", "load", "save"} :
          WindowService_update_window_position(id, 160, 160, failure)

SpecGeometry == InitWindows /\ [][NextGeometry]_vars

(***************************************************************************)
(* Tasks.  A spawned command is a task that advances one lock acquisition  *)
(* or one await at a time: tasks maps a task to its command, its position, *)
(* the note it is about, the records it still has to restore and the       *)
(* value it is going to return.  notes_lock and windows_lock name the task *)
(* that holds the mutex of NotesState and of DetachedWindowsState.         *)
(***************************************************************************)
Task(op, pc, note, todo, result) ==
    [op |-> op, pc |-> pc, note |-> note, todo |-> todo, result |-> result]

TaskIds == 1..MaxWinOps

\* What no task step changes.
TaskFrame ==
    UNCHANGED <<files, index, notes, content_hashes, dirty_flags, uuid_count,
                now, load_result, started, pending, notes_cache, spatial_files,
                active_windows, window_states, events, config_lock,
                hashes_lock, flags_lock>>

At(t, op, pc) ==
    /\ t \in DOMAIN tasks
    /\ tasks[t].op = op
    /\ tasks[t].pc = pc

\* setup_app runs on the main thread, the commands on spawned tasks.
MainTask == 0

\* The runtime spawns a task; setup_app runs inside block_on before the
\* event loop, so nothing is spawned until it is through.
Spawn(t, task) ==
    /\ At(MainTask, "setup_app", "done")
    /\ t \notin DOMAIN tasks
    /\ \A u \in 1..(t - 1) : u \in DOMAIN tasks
    /\ last.seq + Cardinality(DOMAIN tasks \ {MainTask}) < MaxWinOps
    /\ tasks' = (t :> task) @@ tasks
    /\ TaskFrame
    /\ UNCHANGED <<last, detached_windows, live_windows, windows_file,
                   toggle_state, main_visible, notes_lock, windows_lock>>

\* The task moves on to pc.
Goto(t, pc) == tasks' = [tasks EXCEPT ![t].pc = pc]

\* The task returns.
Return(t, result, value) ==
    /\ tasks' = remove_keys(tasks, {t})
    /\ last' = Command(last,
                       Summary(tasks[t].op, tasks[t].note, NoRequest, result,
                               FALSE, 0, FALSE),
                       value)

\* setup_app: the initial menu is built under the notes lock and then the
\* windows lock.
setup_app ==
    /\ tasks = EmptyMap
    /\ ~started
    /\ tasks' = (MainTask :> Task("setup_app", "notes", "", <<>>, None))
    /\ TaskFrame
    /\ UNCHANGED <<last, detached_windows, live_windows, windows_file,
                   toggle_state, main_visible, notes_lock, windows_lock>>

setup_lock_notes ==
    /\ At(MainTask, "setup_app", "notes")
    /\ notes_lock = None
    /\ notes_lock' = Some(MainTask)
    /\ Goto(MainTask, "windows")
    /\ TaskFrame
    /\ UNCHANGED <<last, detached_windows, live_windows, windows_file,
                   toggle_state, main_visible, windows_lock>>

setup_lock_windows ==
    /\ At(MainTask, "setup_app", "windows")
    /\ windows_lock = None
    /\ windows_lock' = Some(MainTask)
    /\ Goto(MainTask, "menu")
    /\ TaskFrame
    /\ UNCHANGED <<last, detached_windows, live_windows, windows_file,
                   toggle_state, main_visible, notes_lock>>

setup_set_menu ==
    /\ At(MainTask, "setup_app", "menu")
    /\ notes_lock' = None
    /\ windows_lock' = None
    /\ Goto(MainTask, "done")
    /\ TaskFrame
    /\ UNCHANGED <<last, detached_windows, live_windows, windows_file,
                   toggle_state, main_visible>>

\* update_app_menu: the menu is rebuilt under the windows lock and then the
\* notes lock.
invoke_update_app_menu(t) ==
    /\ t \in TaskIds
    /\ Spawn(t, Task("update_app_menu", "windows", "", <<>>, None))

update_app_menu_lock_windows(t) ==
    /\ At(t, "update_app_menu", "windows")
    /\ windows_lock = None
    /\ windows_lock' = Some(t)
    /\ Goto(t, "notes")
    /\ TaskFrame
    /\ UNCHANGED <<last, detached_windows, live_windows, windows_file,
                   toggle_state, main_visible, notes_lock>>

update_app_menu_lock_notes(t) ==
    /\ At(t, "update_app_menu", "notes")
    /\ notes_lock = None
    /\ notes_lock' = Some(t)
    /\ Goto(t, "menu")
    /\ TaskFrame
    /\ UNCHANGED <<last, detached_windows, live_windows, windows_file,
                   toggle_state, main_visible, windows_lock>>

update_app_menu_set(t, failure) ==
    /\ At(t, "update_app_menu", "menu")
    /\ notes_lock' = None
    /\ windows_lock' = None
    /\ Return(t, IF failure = "none" THEN "ok" ELSE "err", None)
    /\ TaskFrame
    /\ UNCHANGED <<detached_windows, live_windows, windows_file, toggle_state,
                   main_visible>>

\* create_detached_window as a task: the note is looked up under the notes
\* lock, which is released before the windows lock is taken.
invoke_create_detached_window(t, note_id) ==
    /\ t \in TaskIds
    /\ Spawn(t, Task("create_detached_window", "notes", note_id, <<>>, None))

create_lock_notes(t) ==
    /\ At(t, "create_detached_window", "notes")
    /\ notes_lock = None
    /\ notes_lock' = Some(t)
    /\ Goto(t, "check")
    /\ TaskFrame
    /\ UNCHANGED <<last, detached_windows, live_windows, windows_file,
                   toggle_state, main_visible, windows_lock>>

create_check_note(t) ==
    /\ At(t, "create_detached_window", "check")
    /\ notes_lock' = None
    /\ IF tasks[t].note \in DOMAIN notes
       THEN /\ Goto(t, "windows")
            /\ UNCHANGED last
       ELSE Return(t, "err", None)
    /\ TaskFrame
    /\ UNCHANGED <<detached_windows, live_windows, windows_file, toggle_state,
                   main_visible, windows_lock>>

create_window(t, failure) ==
    /\ At(t, "create_detached_window", "windows")
    /\ windows_lock = None
    /\ LET outcome == create_outcome(PlainRequest(tasks[t].note), failure,
                                     DOMAIN notes, detached_windows,
                                     live_windows, windows_file)
       IN  /\ detached_windows' = outcome.windows
           /\ live_windows' = outcome.live
           /\ windows_file' = outcome.file
           /\ Return(t, outcome.result, outcome.value)
    /\ TaskFrame
    /\ UNCHANGED <<toggle_state, main_visible, notes_lock, windows_lock>>

\* handle_hover_mode_shortcut spawns toggle_all_windows_hover.
handle_hover_mode_shortcut(t) ==
    /\ t \in TaskIds
    /\ Spawn(t, Task("toggle_all_windows_hover", "enter", "", <<>>, None))

\* toggle_enter without the test of the flag.
toggle_enter_NoGuard(t) ==
    /\ At(t, "toggle_all_windows_hover", "enter")
    /\ toggle_state' = TRUE
    /\ Goto(t, "main")
    /\ UNCHANGED last
    /\ TaskFrame
    /\ UNCHANGED <<detached_windows, live_windows, windows_file, main_visible,
                   notes_lock, windows_lock>>

\* The test of the toggle flag under its mutex.
toggle_enter(t) ==
    /\ At(t, "toggle_all_windows_hover", "enter")
    /\ IF toggle_state
       THEN /\ Return(t, "ok", Some(FALSE))
            /\ UNCHANGED toggle_state
       ELSE /\ toggle_state' = TRUE
            /\ Goto(t, "main")
            /\ UNCHANGED last
    /\ TaskFrame
    /\ UNCHANGED <<detached_windows, live_windows, windows_file, main_visible,
                   notes_lock, windows_lock>>

\* The main window is hidden or shown.  failure "host" is a failed lookup,
\* is_visible, hide or show, "set_focus" a failed set_focus after show: the
\* error leaves the function through ? and the flag stays set.
toggle_main(t, failure) ==
    /\ At(t, "toggle_all_windows_hover", "main")
    /\ IF failure = "host" \/ (failure = "set_focus" /\ ~main_visible)
       THEN /\ main_visible' = (main_visible \/ failure = "set_focus")
            /\ Return(t, "err", None)
       ELSE /\ main_visible' = ~main_visible
            /\ Goto(t, IF main_visible THEN "hide" ELSE "collect")
            /\ UNCHANGED last
    /\ TaskFrame
    /\ UNCHANGED <<detached_windows, live_windows, windows_file, toggle_state,
                   notes_lock, windows_lock>>

toggle_hide_windows(t) ==
    /\ At(t, "toggle_all_windows_hover", "hide")
    /\ windows_lock = None
    /\ live_windows' =
          [l \in DOMAIN live_windows |->
              IF l \in DOMAIN detached_windows
              THEN [live_windows[l] EXCEPT !.visible = FALSE]
              ELSE live_windows[l]]
    /\ tasks' = [tasks EXCEPT ![t].pc = "reset", ![t].result = Some(FALSE)]
    /\ TaskFrame
    /\ UNCHANGED <<last, detached_windows, windows_file, toggle_state,
                   main_visible, notes_lock, windows_lock>>

toggle_collect_windows(t) ==
    /\ At(t, "toggle_all_windows_hover", "collect")
    /\ windows_lock = None
    /\ \E order \in Perms(DOMAIN detached_windows) :
          tasks' = [tasks EXCEPT
                      ![t].pc = "restore",
                      ![t].todo = [i \in 1..Len(order) |->
                                     detached_windows[order[i]]]]
    /\ TaskFrame
    /\ UNCHANGED <<last, detached_windows, live_windows, windows_file,
                   toggle_state, main_visible, notes_lock, windows_lock>>

\* The request toggle_all_windows_hover builds from a record.
RestoreRequest(window_data) ==
    [note_id |-> window_data.note_id,
     x |-> Some(window_data.position[1]), y |-> Some(window_data.position[2]),
     width |-> Some(window_data.size[1]), height |-> Some(window_data.size[2])]

\* One turn of the loop over the collected records: a live window is shown,
\* a missing one is created again and the result is ignored.
toggle_restore_window(t) ==
    /\ At(t, "toggle_all_windows_hover", "restore")
    /\ IF tasks[t].todo = <<>>
       THEN /\ tasks' = [tasks EXCEPT ![t].pc = "reset", ![t].result = Some(TRUE)]
            /\ UNCHANGED <<detached_windows, live_windows, windows_file>>
       ELSE LET window_data == Head(tasks[t].todo)
            IN  /\ tasks' = [tasks EXCEPT ![t].todo = Tail(tasks[t].todo)]
                /\ IF window_data.window_label \in DOMAIN live_windows
                   THEN /\ live_windows' =
                              [live_windows EXCEPT
                                  ![window_data.window_label].visible = TRUE]
                        /\ UNCHANGED <<detached_windows, windows_file>>
                   ELSE /\ notes_lock = None
                        /\ windows_lock = None
                        /\ LET outcome ==
                                   create_outcome(RestoreRequest(window_data),
                                                  "none", DOMAIN notes,
                                                  detached_windows, live_windows,
                                                  windows_file)
                           IN  /\ detached_windows' = outcome.windows
                               /\ live_windows' = outcome.live
                               /\ windows_file' = outcome.file
    /\ TaskFrame
    /\ UNCHANGED <<last, toggle_state, main_visible, notes_lock, windows_lock>>

toggle_reset(t) ==
    /\ At(t, "toggle_all_windows_hover", "reset")
    /\ toggle_state' = FALSE
    /\ Return(t, "ok", tasks[t].result)
    /\ TaskFrame
    /\ UNCHANGED <<detached_windows, live_windows, windows_file, main_visible,
                   notes_lock, windows_lock>>

\* load_application_data is spawned by setup_app once the menu is set.
load_application_data ==
    /\ At(MainTask, "setup_app", "done")
    /\ DOMAIN tasks = {MainTask}
    /\ Startup

NextTasks ==
    \/ setup_app
    \/ setup_lock_notes
    \/ setup_lock_windows
    \/ setup_set_menu
    \/ load_application_data
    \/ \E t \in TaskIds : invoke_update_app_menu(t)
    \/ \E t \in TaskIds : update_app_menu_lock_windows(t)
    \/ \E t \in TaskIds : update_app_menu_lock_notes(t)
    \/ \E t \in TaskIds, failure \in {"none", "host"} :
          update_app_menu_set(t, failure)
    \/ \E t \in TaskIds, id \in FileIds : invoke_create_detached_window(t, id)
    \/ \E t \in TaskIds : create_lock_notes(t)
    \/ \E t \in TaskIds : create_check_note(t)
    \/ \E t \in TaskIds, failure \in {"none", "save"} : create_window(t, failure)
    \/ \E t \in TaskIds : handle_hover_mode_shortcut(t)
    \/ \E t \in TaskIds : toggle_enter(t)
    \/ \E t \in TaskIds, failure \in {"none", "host", "set_focus"} :
          toggle_main(t, failure)
    \/ \E t \in TaskIds : toggle_hide_windows(t)
    \/ \E t \in TaskIds : toggle_collect_windows(t)
    \/ \E t \in TaskIds : toggle_restore_window(t)
    \/ \E t \in TaskIds : toggle_reset(t)

SpecTasks == InitWindows /\ [][NextTasks]_vars

\* The lock a task is about to acquire.
Wants(t) ==
    IF tasks[t].pc = "notes" THEN "notes"
    ELSE IF tasks[t].pc \in {"windows", "hide", "collect"} THEN "windows"
    ELSE IF tasks[t].pc = "config" THEN "config"
    ELSE IF tasks[t].pc \in {"hashes", "clear_hashes"} THEN "hashes"
    ELSE IF tasks[t].pc \in {"flags", "clear_flags"} THEN "flags"
    ELSE "none"

\* The toggle tasks that have set the flag and have not returned.
InFlight ==
    {t \in DOMAIN tasks :
        tasks[t].op = "toggle_all_windows_hover" /\ tasks[t].pc # "enter"}

(***************************************************************************)
(* The text of a note file, character by character.  FileText above keeps  *)
(* the fields of the frontmatter apart, which is exact for the titles of   *)
(* Titles; here the text is the string save_note formats and the parser    *)
(* splits it as parse_markdown_note does.  A key such as "title: " and a   *)
(* timestamp are single characters of the model: they hold no "-" that    *)
(* could take part in a delimiter.                                         *)
(***************************************************************************)
Delimiter == <<"-", "-", "-", "\n">>

\* The characters of the titles and bodies.
RECURSIVE Strings(_, _)
Strings(alphabet, n) ==
    IF n = 0 THEN {<<>>}
    ELSE LET shorter == Strings(alphabet, n - 1)
         IN  shorter \cup {Append(s, c) : s \in shorter, c \in alphabet}

\* serde_yaml writes a string as a plain scalar unless the scalar is empty
\* or begins with an indicator: "-" alone or the document marker "---".
needs_quotes(string) ==
    \/ string = <<>>
    \/ /\ string[1] = "-"
       /\ \/ Len(string) = 1
          \/ Len(string) >= 3 /\ string[2] = "-" /\ string[3] = "-"

yaml_string(string) ==
    IF needs_quotes(string) THEN <<"'">> \o string \o <<"'">> ELSE string

\* The decimal text of a small number, one character of the model.
decimal(n) == <<"0", "1", "2", "3", "4", "5", "6", "7", "8", "9">>[n + 1]

\* serde_yaml::to_string(&NoteFrontmatter): position is skipped when None.
to_yaml(frontmatter) ==
    <<"id: ", frontmatter.id, "\n">>
    \o <<"title: ">> \o yaml_string(frontmatter.title) \o <<"\n">>
    \o <<"created_at: ", decimal(frontmatter.created_at), "\n">>
    \o <<"updated_at: ", decimal(frontmatter.updated_at), "\n">>
    \o <<"tags: []", "\n">>
    \o (IF frontmatter.position = None THEN <<>>
        ELSE <<"position: ", decimal(frontmatter.position[1]), "\n">>)

NoteFrontmatter(note) ==
    [id |-> note.id, title |-> note.title, created_at |-> note.created_at,
     updated_at |-> note.updated_at, tags |-> note.tags,
     position |-> note.position]

\* format!("---\n{}---\n{}", frontmatter_yaml, note.content)
file_content(note) ==
    Delimiter \o to_yaml(NoteFrontmatter(note)) \o Delimiter \o note.content

\* The notes that are serialized: every title of up to MaxTitleLen
\* characters "a" and "-", a body with and without delimiter lines, with
\* and without a position.
RoundTripTitles == Strings({"a", "-"}, MaxTitleLen) \ {<<>>}

RoundTripContents ==
    {<<>>, <<"a">>, <<"-", "-", "-", "\n", "a", "\n", "-", "-", "-", "\n">>}

RoundTripNotes ==
    {Note("n1", title, content, 1, 2, <<>>, position) :
        title \in RoundTripTitles, content \in RoundTripContents,
        position \in {None, Some(0)}}

\* The first index from which pattern occurs in text at or after start, 0 if
\* there is none (str::find).
RECURSIVE find(_, _, _)
find(text, pattern, start) ==
    IF start + Len(pattern) - 1 > Len(text) THEN 0
    ELSE IF SubSeq(text, start, start + Len(pattern) - 1) = pattern THEN start
    ELSE find(text, pattern, start + 1)

\* serde_yaml::from_str::<NoteFrontmatter>: the frontmatter whose YAML the
\* text is; any other text of the model lacks a required field.
from_yaml(text) ==
    LET read == {NoteFrontmatter(note) : note \in RoundTripNotes}
        same == {frontmatter \in read : to_yaml(frontmatter) = text}
    IN  IF same = {} THEN None ELSE Some(CHOOSE frontmatter \in same : TRUE)

\* parse_markdown_note on the characters of a file: splitn(3, "---\n") cuts
\* at the first two places where the delimiter occurs, wherever they are.
parse_file_content(text, generated_id, filename, time) ==
    LET second == find(text, Delimiter, Len(Delimiter) + 1)
        generated == Note(generated_id, filename, text, time, time, <<>>, None)
    IN  IF find(text, Delimiter, 1) = 1 /\ second # 0
        THEN LET frontmatter ==
                     from_yaml(SubSeq(text, Len(Delimiter) + 1, second - 1))
                 rest == SubSeq(text, second + Len(Delimiter), Len(text))
             IN  IF frontmatter = None
                 THEN [ok |-> FALSE, note |-> None]
                 ELSE [ok |-> TRUE,
                       note |-> Some(Note(frontmatter[1].id, frontmatter[1].title,
                                          rest, frontmatter[1].created_at,
                                          frontmatter[1].updated_at,
                                          frontmatter[1].tags,
                                          frontmatter[1].position))]
        ELSE [ok |-> TRUE, note |-> Some(generated)]

\* FileStorageManager::save_note of a new note into an empty directory.
save_note(note) ==
    /\ notes = EmptyMap
    /\ notes' = (note.id :> note)
    /\ files' = (MdName(sanitize_filename(note.title)) :> file_content(note))
    /\ last' = Command(last,
                       Summary("save_note", note.id, NoRequest, "ok", FALSE, 1,
                               FALSE),
                       None)
    /\ UNCHANGED <<index, content_hashes, dirty_flags, uuid_count, now,
                   load_result, started, pending, notes_cache>>
    /\ UNCHANGED winvars

\* FileStorageManager::load_note_from_file of a file that was saved.
load_note_from_file(path) ==
    /\ path \in DOMAIN files
    /\ last.this.op = "save_note"
    /\ LET parsed == parse_file_content(files[path], Uuid(uuid_count + 1),
                                        file_stem(path), now)
       IN  last' = Command(last,
                      Summary("load_note_from_file", last.this.id, NoRequest,
                              IF parsed.ok THEN "ok" ELSE "err", FALSE, 0, FALSE),
                      parsed.note)
    /\ UNCHANGED <<files, index, notes, content_hashes, dirty_flags, uuid_count,
                   now, load_result, started, pending, notes_cache>>
    /\ UNCHANGED winvars

RoundTripPaths == {MdName(sanitize_filename(title)) : title \in RoundTripTitles}

NextRoundTrip ==
    \/ \E note \in RoundTripNotes : save_note(note)
    \/ \E path \in RoundTripPaths : load_note_from_file(path)

\* An empty notes directory and no persisted windows.
InitRoundTrip == InitState({EmptyMap}, {EmptyMap})

SpecRoundTrip == InitRoundTrip /\ [][NextRoundTrip]_vars

(***************************************************************************)
(* The operations of ModifiedStateTracker called one by one.               *)
(***************************************************************************)
TrackerContents == {"A", "B"}

\* A tracker call: only the two maps of the tracker change.
TrackerCall(op, note_id, content, changed, value) ==
    /\ last.seq < MaxWinOps
    /\ last' = Command(last,
                       Summary(op, note_id,
                               [title |-> None, content |-> content, tags |-> None],
                               "ok", changed, 0, FALSE),
                       value)
    /\ UNCHANGED <<files, index, notes, uuid_count, now, load_result, started,
                   pending, notes_cache>>
    /\ UNCHANGED winvars

ModifiedStateTracker_initialize_note(note_id, content) ==
    /\ content_hashes' = (note_id :> compute_content_hash(content)) @@ content_hashes
    /\ dirty_flags' = remove_keys(dirty_flags, {note_id})
    /\ TrackerCall("initialize_note", note_id, Some(content), FALSE, None)

ModifiedStateTracker_update_content_hash(note_id, content) ==
    /\ content_hashes' = update_content_hash(content_hashes, note_id, content)
    /\ UNCHANGED dirty_flags
    /\ TrackerCall("update_content_hash", note_id, Some(content), FALSE, None)

ModifiedStateTracker_has_content_changed(note_id, new_content) ==
    /\ UNCHANGED <<content_hashes, dirty_flags>>
    /\ LET changed == has_content_changed(content_hashes, note_id, new_content)
       IN  TrackerCall("has_content_changed", note_id, Some(new_content), changed,
                       Some(changed))

ModifiedStateTracker_mark_modified(note_id) ==
    /\ dirty_flags' = (note_id :> TRUE) @@ dirty_flags
    /\ UNCHANGED content_hashes
    /\ TrackerCall("mark_modified", note_id, None, FALSE, None)

ModifiedStateTracker_remove_note(note_id) ==
    /\ content_hashes' = remove_keys(content_hashes, {note_id})
    /\ dirty_flags' = remove_keys(dirty_flags, {note_id})
    /\ TrackerCall("remove_note", note_id, None, FALSE, None)

ModifiedStateTracker_clear_all ==
    /\ content_hashes' = EmptyMap
    /\ dirty_flags' = EmptyMap
    /\ TrackerCall("clear_all", "", None, FALSE, None)

NextTracker ==
    \/ \E id \in FileIds, content \in TrackerContents :
          ModifiedStateTracker_initialize_note(id, content)
    \/ \E id \in FileIds, content \in TrackerContents :
          ModifiedStateTracker_update_content_hash(id, content)
    \/ \E id \in FileIds, content \in TrackerContents :
          ModifiedStateTracker_has_content_changed(id, content)
    \/ \E id \in FileIds : ModifiedStateTracker_mark_modified(id)
    \/ \E id \in FileIds : ModifiedStateTracker_remove_note(id)
    \/ ModifiedStateTracker_clear_all

SpecTracker == InitRoundTrip /\ [][NextTracker]_vars

(***************************************************************************)
(* Loading and installing the note map.  load_application_data reads the   *)
(* directory without a lock and installs the map afterwards under the      *)
(* notes lock (update_notes_state); reload_notes_from_directory holds the  *)
(* configuration lock from before its load until it returns, and every     *)
(* note command needs that lock.                                           *)
(***************************************************************************)
\* load_application_data up to the end of load_notes.
startup_load ==
    /\ ~started
    /\ pending = None
    /\ load_result = NoLoad
    /\ \E out \in LoadOutcomes :
        /\ files' = out.files
        /\ index' = out.index
        /\ uuid_count' = out.uuid
        /\ load_result' = out.result
        /\ IF out.result.ok
           THEN /\ pending' = Some(out.result.notes)
                /\ UNCHANGED <<started, detached_windows, events>>
           ELSE /\ pending' = None
                /\ started' = TRUE
                /\ detached_windows' = windows_file
                /\ events' = Append(events, <<"data-loaded">>)
    /\ now' = now + 1
    /\ UNCHANGED <<notes, content_hashes, dirty_flags, notes_cache, last,
                   live_windows, windows_file, spatial_files, active_windows,
                   window_states, taskvars>>

\* update_notes_state, update_windows_state and the data-loaded event.
startup_install ==
    /\ ~started
    /\ pending # None
    /\ notes' = pending[1]
    /\ content_hashes' = initialize_notes(content_hashes, pending[1])
    /\ dirty_flags' = remove_keys(dirty_flags, DOMAIN pending[1])
    /\ pending' = None
    /\ started' = TRUE
    /\ detached_windows' = windows_file
    /\ events' = Append(events, <<"data-loaded">>)
    /\ UNCHANGED <<files, index, uuid_count, now, load_result, notes_cache, last,
                   live_windows, windows_file, spatial_files, active_windows,
                   window_states, taskvars>>

\* reload_notes_from_directory has loaded and not yet installed: it holds
\* the configuration lock.
ReloadHoldsConfig == started /\ pending # None

reload_load_started ==
    /\ started
    /\ reload_load

reload_install_started ==
    /\ started
    /\ reload_install

create_note_unlocked(request, failure) ==
    /\ ~ReloadHoldsConfig
    /\ create_note(request, failure)

update_note_unlocked(id, request, failure) ==
    /\ ~ReloadHoldsConfig
    /\ update_note(id, request, failure)

\* The content requests of Requests.
ContentRequests == {request \in Requests : request.content # None}

NextInstall ==
    \/ startup_load
    \/ startup_install
    \/ reload_load_started
    \/ reload_install_started
    \/ \E request \in CreateRequests, failure \in {"none", "write"} :
          create_note_unlocked(request, failure)
    \/ \E id \in KnownIds, request \in ContentRequests,
           failure \in {"none", "write"} :
          update_note_unlocked(id, request, failure)

\* The directory TwoNotes and no persisted windows.
InitInstall == InitState({TwoNotes}, {EmptyMap})

SpecInstall == InitInstall /\ [][NextInstall]_vars

\* The note of the map is in a file, with the content it has in the map.
Persisted(id) ==
    \E path \in DOMAIN files :
        /\ files[path].kind = "frontmatter"
        /\ files[path].id = id
        /\ files[path].content = notes[id].content

(***************************************************************************)
(* The note commands as tasks, one lock acquisition or one await a step.   *)
(* A command task keeps its request in todo until the note exists;        *)
(* reload_notes_from_directory keeps the loaded map in result and the ids  *)
(* it still has to initialize in todo.                                     *)
(***************************************************************************)
\* What no step of a note command changes.
CommandFrame ==
    UNCHANGED <<started, pending, notes_cache, detached_windows, live_windows,
                windows_file, spatial_files, active_windows, window_states,
                events, toggle_state, main_visible, windows_lock>>

KeepData ==
    UNCHANGED <<files, index, notes, content_hashes, dirty_flags, uuid_count,
                now, load_result>>

\* The frontend invokes a command once the data is loaded.
Invoke(t, task) ==
    /\ started
    /\ t \notin DOMAIN tasks
    /\ \A u \in 1..(t - 1) : u \in DOMAIN tasks
    /\ last.seq + Cardinality(DOMAIN tasks) < MaxWinOps
    /\ tasks' = (t :> task) @@ tasks
    /\ KeepData
    /\ CommandFrame
    /\ UNCHANGED <<last, notes_lock, config_lock, hashes_lock, flags_lock>>

invoke_create_note(t, request) ==
    /\ t \in TaskIds
    /\ Invoke(t, Task("create_note", "notes", "", <<request>>, None))

invoke_delete_note(t, id) ==
    /\ t \in TaskIds
    /\ Invoke(t, Task("delete_note", "notes", id, <<>>, None))

invoke_reload_notes_from_directory(t) ==
    /\ t \in TaskIds
    /\ Invoke(t, Task("reload_notes_from_directory", "config", "", <<>>, None))

\* create_note and delete_note: notes.lock().await, then config.lock().await.
command_lock_notes(t) ==
    /\ t \in DOMAIN tasks
    /\ tasks[t].op \in {"create_note", "delete_note"}
    /\ tasks[t].pc = "notes"
    /\ notes_lock = None
    /\ notes_lock' = Some(t)
    /\ Goto(t, "config")
    /\ KeepData
    /\ CommandFrame
    /\ UNCHANGED <<last, config_lock, hashes_lock, flags_lock>>

command_lock_config(t) ==
    /\ t \in DOMAIN tasks
    /\ tasks[t].op \in {"create_note", "delete_note"}
    /\ tasks[t].pc = "config"
    /\ config_lock = None
    /\ config_lock' = Some(t)
    /\ Goto(t, IF tasks[t].op = "create_note" THEN "save" ELSE "delete")
    /\ KeepData
    /\ CommandFrame
    /\ UNCHANGED <<last, notes_lock, hashes_lock, flags_lock>>

\* create_note: the note is inserted and saved; an error returns through ?
\* and drops both guards.
create_note_save(t, failure) ==
    /\ At(t, "create_note", "save")
    /\ LET request == tasks[t].todo[1]
           note == Note(Uuid(uuid_count + 1), request.title[1], request.content[1],
                        now, now, request.tags[1], Some(max_position(notes) + 1))
           saved == save_note_using_file_storage(files, index, note, failure)
       IN  /\ uuid_count' = uuid_count + 1
           /\ now' = now + 1
           /\ notes' = (note.id :> note) @@ notes
           /\ files' = saved.files
           /\ index' = saved.index
           /\ IF saved.ok
              THEN /\ tasks' = [tasks EXCEPT ![t] =
                                   Task("create_note", "hashes", note.id, <<>>,
                                        Some(note))]
                   /\ UNCHANGED <<last, notes_lock, config_lock>>
              ELSE /\ tasks' = remove_keys(tasks, {t})
                   /\ last' = Command(last,
                                  Summary("create_note", note.id, request, "err",
                                          FALSE, saved.writes, saved.index_updated),
                                  None)
                   /\ notes_lock' = None
                   /\ config_lock' = None
    /\ CommandFrame
    /\ UNCHANGED <<content_hashes, dirty_flags, load_result, hashes_lock,
                   flags_lock>>

\* delete_note: the entry is removed, then the file.
delete_note_remove(t, failure) ==
    /\ At(t, "delete_note", "delete")
    /\ LET id == tasks[t].note
           deleted == FileNotesStorage_delete_note(files, index, id, failure)
       IN  IF id \notin DOMAIN notes
           THEN /\ Return(t, "ok", Some(FALSE))
                /\ notes_lock' = None
                /\ config_lock' = None
                /\ UNCHANGED <<files, index, notes>>
           ELSE /\ notes' = remove_keys(notes, {id})
                /\ files' = deleted.files
                /\ index' = deleted.index
                /\ IF deleted.ok
                   THEN /\ tasks' = [tasks EXCEPT ![t].pc = "hashes",
                                                  ![t].result = Some(TRUE)]
                        /\ UNCHANGED <<last, notes_lock, config_lock>>
                   ELSE /\ Return(t, "err", None)
                        /\ notes_lock' = None
                        /\ config_lock' = None
    /\ CommandFrame
    /\ UNCHANGED <<content_hashes, dirty_flags, uuid_count, now, load_result,
                   hashes_lock, flags_lock>>

\* initialize_note and remove_note: the hash map is locked and written
\* first.
tracker_lock_hashes(t) ==
    /\ t \in DOMAIN tasks
    /\ tasks[t].pc = "hashes"
    /\ hashes_lock = None
    /\ hashes_lock' = Some(t)
    /\ content_hashes' =
          IF tasks[t].op = "delete_note"
          THEN remove_keys(content_hashes, {tasks[t].note})
          ELSE (tasks[t].note :> compute_content_hash(notes[tasks[t].note].content))
                   @@ content_hashes
    /\ Goto(t, "flags")
    /\ CommandFrame
    /\ UNCHANGED <<files, index, notes, dirty_flags, uuid_count, now,
                   load_result, last, notes_lock, config_lock, flags_lock>>

\* initialize_note and remove_note: the flag map is locked with the hash
\* map still held, the flag is removed and both guards are dropped; the
\* command returns after its last tracker call and drops its own guards.
tracker_lock_flags(t) ==
    /\ t \in DOMAIN tasks
    /\ tasks[t].pc = "flags"
    /\ flags_lock = None
    /\ dirty_flags' = remove_keys(dirty_flags, {tasks[t].note})
    /\ hashes_lock' = None
    /\ IF tasks[t].todo # <<>>
       THEN /\ tasks' = [tasks EXCEPT ![t].pc = "hashes",
                                      ![t].note = Head(tasks[t].todo),
                                      ![t].todo = Tail(tasks[t].todo)]
            /\ UNCHANGED <<last, notes_lock, config_lock>>
       ELSE /\ tasks' = remove_keys(tasks, {t})
            /\ last' = Command(last,
                           Summary(tasks[t].op,
                                   IF tasks[t].op = "reload_notes_from_directory"
                                   THEN "" ELSE tasks[t].note,
                                   NoRequest, "ok", FALSE, 0, FALSE),
                           tasks[t].result)
            /\ notes_lock' = None
            /\ config_lock' = None
    /\ CommandFrame
    /\ UNCHANGED <<files, index, notes, content_hashes, uuid_count, now,
                   load_result, flags_lock>>

\* reload_notes_from_directory: config.lock().await comes first.
reload_lock_config(t) ==
    /\ At(t, "reload_notes_from_directory", "config")
    /\ config_lock = None
    /\ config_lock' = Some(t)
    /\ Goto(t, "load")
    /\ KeepData
    /\ CommandFrame
    /\ UNCHANGED <<last, notes_lock, hashes_lock, flags_lock>>

reload_load_notes(t) ==
    /\ At(t, "reload_notes_from_directory", "load")
    /\ \E out \in LoadOutcomes :
        /\ files' = out.files
        /\ index' = out.index
        /\ uuid_count' = out.uuid
        /\ load_result' = out.result
        /\ IF out.result.ok
           THEN /\ tasks' = [tasks EXCEPT ![t].pc = "notes",
                                          ![t].result = Some(out.result.notes)]
                /\ UNCHANGED <<last, config_lock>>
           ELSE /\ Return(t, "err", None)
                /\ config_lock' = None
    /\ now' = now + 1
    /\ CommandFrame
    /\ UNCHANGED <<notes, content_hashes, dirty_flags, notes_lock, hashes_lock,
                   flags_lock>>

\* reload_notes_from_directory: notes.lock().await with the configuration
\* lock held.
reload_lock_notes(t) ==
    /\ At(t, "reload_notes_from_directory", "notes")
    /\ notes_lock = None
    /\ notes_lock' = Some(t)
    /\ Goto(t, "install")
    /\ KeepData
    /\ CommandFrame
    /\ UNCHANGED <<last, config_lock, hashes_lock, flags_lock>>

reload_install_map(t) ==
    /\ At(t, "reload_notes_from_directory", "install")
    /\ notes' = tasks[t].result[1]
    /\ Goto(t, "clear_flags")
    /\ CommandFrame
    /\ UNCHANGED <<files, index, content_hashes, dirty_flags, uuid_count, now,
                   load_result, last, notes_lock, config_lock, hashes_lock,
                   flags_lock>>

\* clear_all: the flag map is locked and cleared first.
reload_clear_flags(t) ==
    /\ At(t, "reload_notes_from_directory", "clear_flags")
    /\ flags_lock = None
    /\ flags_lock' = Some(t)
    /\ dirty_flags' = EmptyMap
    /\ Goto(t, "clear_hashes")
    /\ CommandFrame
    /\ UNCHANGED <<files, index, notes, content_hashes, uuid_count, now,
                   load_result, last, notes_lock, config_lock, hashes_lock>>

\* clear_all: the hash map is locked with the flag map still held; then the
\* loop over the installed notes starts.
reload_clear_hashes(t) ==
    /\ At(t, "reload_notes_from_directory", "clear_hashes")
    /\ hashes_lock = None
    /\ content_hashes' = EmptyMap
    /\ flags_lock' = None
    /\ IF notes = EmptyMap
       THEN /\ tasks' = remove_keys(tasks, {t})
            /\ last' = Command(last,
                           Summary("reload_notes_from_directory", "", NoRequest,
                                   "ok", FALSE, 0, FALSE),
                           tasks[t].result)
            /\ notes_lock' = None
            /\ config_lock' = None
       ELSE /\ \E order \in Perms(DOMAIN notes) :
                  tasks' = [tasks EXCEPT ![t].pc = "hashes",
                                        ![t].note = Head(order),
                                        ![t].todo = Tail(order)]
            /\ UNCHANGED <<last, notes_lock, config_lock>>
    /\ CommandFrame
    /\ UNCHANGED <<files, index, notes, dirty_flags, uuid_count, now,
                   load_result, hashes_lock>>

\* load_application_data before any command is invoked.
StartupIdle ==
    /\ tasks = EmptyMap
    /\ Startup

NextLocks ==
    \/ StartupIdle
    \/ \E t \in TaskIds, request \in CreateRequests : invoke_create_note(t, request)
    \/ \E t \in TaskIds, id \in FileIds : invoke_delete_note(t, id)
    \/ \E t \in TaskIds : invoke_reload_notes_from_directory(t)
    \/ \E t \in TaskIds : command_lock_notes(t)
    \/ \E t \in TaskIds : command_lock_config(t)
    \/ \E t \in TaskIds, failure \in {"none", "write"} : create_note_save(t, failure)
    \/ \E t \in TaskIds, failure \in {"none", "write"} :
          delete_note_remove(t, failure)
    \/ \E t \in TaskIds : tracker_lock_hashes(t)
    \/ \E t \in TaskIds : tracker_lock_flags(t)
    \/ \E t \in TaskIds : reload_lock_config(t)
    \/ \E t \in TaskIds : reload_load_notes(t)
    \/ \E t \in TaskIds : reload_lock_notes(t)
    \/ \E t \in TaskIds : reload_install_map(t)
    \/ \E t \in TaskIds : reload_clear_flags(t)
    \/ \E t \in TaskIds : reload_clear_hashes(t)

SpecLocks == InitInstall /\ [][NextLocks]_vars

\* The holder of a lock, None when it is free or when the task asks for
\* no lock.
Holder(lock) ==
    CASE lock = "notes" -> notes_lock
      [] lock = "windows" -> windows_lock
      [] lock = "config" -> config_lock
      [] lock = "hashes" -> hashes_lock
      [] lock = "flags" -> flags_lock
      [] OTHER -> None

\* The task waits for a lock that another task holds.
Blocked(t) == Holder(Wants(t)) # None

\* C11: after every completed note operation, whether it succeeded or
\* failed, the ids the tracker holds a hash for are the ids of the note map.
C11_TrackerMatchesNoteMap ==
    DOMAIN content_hashes = DOMAIN notes

\* The files of the notes directory that carry the note id.
FilesOf(fs, id) ==
    {p \in DOMAIN fs : fs[p].kind = "frontmatter" /\ fs[p].id = id}

\* C12: after delete_note(id) has succeeded for a note of the map, no file
\* of the notes directory carries that id, whatever the index says of it.
C12_DeleteRemovesFile ==
    [][(/\ last'.seq = last.seq + 1
        /\ last'.this.op = "delete_note"
        /\ last'.this.result = "ok"
        /\ last'.this.id \in DOMAIN notes)
       => FilesOf(files', last'.this.id) = {}]_vars

\* C13: a successful delete_note of a note of the map removes the index
\* entry and the tracker entry of the id together with the file.
C13_DeleteRemovesIndexAndTracker ==
    [][(/\ last'.seq = last.seq + 1
        /\ last'.this.op = "delete_note"
        /\ last'.this.result = "ok"
        /\ last'.this.id \in DOMAIN notes)
       => /\ last'.this.id \notin DOMAIN index'
          /\ last'.this.id \notin DOMAIN content_hashes'
          /\ last'.this.id \notin DOMAIN dirty_flags']_vars

\* C14: a successful update_note that writes a note that has a file writes to
\* that file: the files that carry the id are the same before and after, on the
\* save of a title change and on every later save.
C14_SaveKeepsTheNotesFile ==
    [][(/\ last'.seq = last.seq + 1
        /\ last'.this.op = "update_note"
        /\ last'.this.result = "ok"
        /\ last'.this.writes = 1
        /\ FilesOf(files, last'.this.id) # {})
       => FilesOf(files', last'.this.id) = FilesOf(files, last'.this.id)]_vars

\* C15: a successful create_note never overwrites a file that is there: every
\* file of the directory has after the call the text it had before.
C15_CreateNeverOverwrites ==
    [][(/\ last'.seq = last.seq + 1
        /\ last'.this.op = "create_note"
        /\ last'.this.result = "ok")
       => \A p \in DOMAIN files : p \in DOMAIN files' /\ files'[p] = files[p]]_vars

\* No two notes of the map have the same position.
PositionsDistinct(ns) ==
    \A i, j \in DOMAIN ns :
        (i # j /\ ns[i].position # None) => ns[i].position # ns[j].position

\* C18: create, update, delete and reorder keep the positions of the map
\* pairwise distinct, for any list of ids given to reorder_notes.
C18_CommandsKeepPositionsDistinct ==
    [][(/\ last'.seq = last.seq + 1
        /\ last'.this.op \in {"create_note", "update_note", "delete_note",
                               "reorder_notes"}
        /\ PositionsDistinct(notes))
       => PositionsDistinct(notes')]_vars

\* C19: a created note has the position one above the largest position of
\* the notes there were, 0 when there were none, whichever create_note made
\* it.
C19_CreatedAboveMaximum ==
    [][(/\ last'.seq = last.seq + 1
        /\ last'.this.op \in {"create_note", "create_note_v2"}
        /\ last'.this.result = "ok")
       => last'.value[1].position
            = Some(max_position(IF last'.this.op = "create_note" THEN notes
                                ELSE notes_cache) + 1)]_vars

\* C20: creating a detached window succeeds only for a note id that is a key
\* of the note map; for any other id the call fails and makes neither a live
\* window nor a window record.
C20_WindowOnlyForExistingNote ==
    [][(/\ last'.seq = last.seq + 1
        /\ last'.this.op \in {"create_detached_window",
                               "create_detached_window_v2"}
        /\ last'.this.id \notin DOMAIN notes)
       => /\ last'.this.result = "err"
          /\ DOMAIN live_windows' \subseteq DOMAIN live_windows
          /\ DOMAIN detached_windows' \subseteq DOMAIN detached_windows
          /\ DOMAIN active_windows' \subseteq DOMAIN active_windows]_vars

\* C27: the position a new window is created and recorded at is not exactly
\* the recorded position of any window that was already open.
C27_OffsetAvoidsCoincidence ==
    [][(/\ last'.seq = last.seq + 1
        /\ last'.this.op = "create_detached_window"
        /\ last'.this.result = "ok")
       => \A l \in DOMAIN detached_windows :
              detached_windows[l].position # last'.value[1].position]_vars

\* C21: the record map never holds two records with the same note_id.
C21_OneWindowPerNote ==
    \A l1, l2 \in DOMAIN detached_windows :
        detached_windows[l1].note_id = detached_windows[l2].note_id => l1 = l2

\* The reconciliation passes over all records.
ReconciliationPasses ==
    {"cleanup_stale_windows", "restore_detached_windows"}

\* C23: when a reconciliation pass has completed, every record that had no
\* live window when the pass began is gone from the record map and from the
\* persisted window state.
C23_StaleRecordRemoved ==
    [][(/\ last'.seq = last.seq + 1
        /\ last'.this.op \in ReconciliationPasses
                              \cup {"cleanup_destroyed_window"}
        /\ last'.this.result = "ok")
       => \A l \in stale_windows(detached_windows, live_windows) :
             (last'.this.op = "cleanup_destroyed_window"
                 => l = note_label(last'.this.id))
             => /\ l \notin DOMAIN detached_windows'
                /\ l \notin DOMAIN windows_file']_vars

\* C24: a pass reconciles every record whose own reconciliation needs no
\* host-runtime call, whatever happens to the other windows: restore removes
\* every record without a live window, the cleanup of drag windows removes
\* every drag record without a live window, recreate removes every drag
\* record.
C24_PassProcessesEveryRecord ==
    [][(/\ last'.seq = last.seq + 1
        /\ last'.this.op \in {"restore_detached_windows",
                               "cleanup_stale_hybrid_windows",
                               "recreate_missing_windows"})
       => \A l \in DOMAIN detached_windows :
             (\/ /\ last'.this.op = "restore_detached_windows"
                 /\ l \notin DOMAIN live_windows
              \/ /\ last'.this.op = "cleanup_stale_hybrid_windows"
                 /\ l[1] = "hybrid-drag"
                 /\ l \notin DOMAIN live_windows
              \/ /\ last'.this.op = "recreate_missing_windows"
                 /\ l[1] = "hybrid-drag")
             => l \notin DOMAIN detached_windows']_vars

\* C25: a window recreate_missing_windows builds for a record without a live
\* window has the position and the size of the record.
C25_RecreatedWithStoredGeometry ==
    [][(/\ last'.seq = last.seq + 1
        /\ last'.this.op = "recreate_missing_windows")
       => \A l \in last'.value[1] :
             /\ live_windows'[l].position = detached_windows[l].position
             /\ live_windows'[l].size = detached_windows[l].size]_vars

\* C26: no reconciliation pass adopts, recreates or shows a window with a
\* drag label: after the pass no drag label has a record or a live window
\* it did not have before, and no hidden drag window has become visible.
C26_PassesIgnoreDragWindows ==
    [][(/\ last'.seq = last.seq + 1
        /\ last'.this.op \in ReconciliationPasses
                              \cup {"recreate_missing_windows",
                                    "cleanup_stale_hybrid_windows",
                                    "cleanup_destroyed_window"})
       => \A id \in FileIds :
             LET l == hybrid_label(id)
             IN  /\ l \in DOMAIN detached_windows' => l \in DOMAIN detached_windows
                 /\ l \in DOMAIN live_windows'
                      => /\ l \in DOMAIN live_windows
                         /\ live_windows'[l].visible => live_windows[l].visible]_vars

\* C22: after a close command has returned true for a note, no record of the
\* note is left in the record maps or, as a detached window, in the persisted
\* window state, the window of the note is not live, and the last
\* notification emitted is window-closed for the note.
C22_ClosedAfterClose ==
    [][(/\ last'.seq = last.seq + 1
        /\ last'.this.op \in {"close_detached_window", "close_detached_window_v2"}
        /\ last'.this.result = "ok"
        /\ last'.value = Some(TRUE))
       => LET id == last'.this.id
          IN  /\ \A l \in DOMAIN detached_windows' \cup DOMAIN windows_file' :
                    /\ l \in DOMAIN detached_windows'
                          => detached_windows'[l].note_id # id
                    /\ l \in DOMAIN windows_file'
                          => windows_file'[l].note_id # id
              /\ last'.this.op = "close_detached_window_v2"
                    => /\ id \notin DOMAIN active_windows'
                       /\ id \in DOMAIN window_states'
                             => ~window_states'[id].is_detached
              /\ note_label(id) \notin DOMAIN live_windows'
              /\ Len(events') > Len(events)
              /\ events'[Len(events')] = <<"window-closed", id>>]_vars

\* C28: a successful reposition, resize or shade of an open window changes
\* only the fields it is about in the record of that window, leaves every
\* other record as it was, leaves the window open and has the persisted
\* state agree with the record.
C28_GeometryFrame ==
    [][(/\ last'.seq = last.seq + 1
        /\ last'.this.result = "ok"
        /\ \/ /\ last'.this.op \in {"update_detached_window_position",
                                      "update_detached_window_size",
                                      "toggle_window_shade"}
              /\ last'.this.id \in DOMAIN detached_windows
              /\ last'.this.id \in DOMAIN live_windows
           \/ /\ last'.this.op = "update_window_position"
              /\ last'.this.id \in DOMAIN active_windows
              /\ note_label(last'.this.id) \in DOMAIN live_windows)
       => LET id == last'.this.id
          IN  IF last'.this.op = "update_window_position"
              THEN /\ active_windows' =
                        [active_windows EXCEPT ![id].position = last'.value[1]]
                   /\ note_label(id) \in DOMAIN live_windows'
                   /\ id \in DOMAIN window_states'
                   /\ window_states'[id].custom_position = Some(last'.value[1])
              ELSE /\ DOMAIN detached_windows' = DOMAIN detached_windows
                   /\ \A l \in DOMAIN detached_windows \ {id} :
                         detached_windows'[l] = detached_windows[l]
                   /\ LET old == detached_windows[id]
                          new == detached_windows'[id]
                      IN  CASE last'.this.op = "update_detached_window_position" ->
                                 new = [old EXCEPT !.position = last'.value[1]]
                            [] last'.this.op = "update_detached_window_size" ->
                                 new = [old EXCEPT !.size = last'.value[1]]
                            [] OTHER ->
                                 /\ new.is_shaded = last'.value[1]
                                 /\ new = [old EXCEPT
                                             !.is_shaded = new.is_shaded,
                                             !.original_height = new.original_height,
                                             !.size = <<old.size[1], new.size[2]>>]
                   /\ id \in DOMAIN live_windows'
                   /\ windows_file' = detached_windows']_vars

\* C29: no task waits for the notes lock while it holds the windows lock.
C29_NotesBeforeWindows ==
    \A t \in DOMAIN tasks :
        ~ /\ windows_lock = Some(t)
          /\ Wants(t) = "notes"
          /\ notes_lock # None

\* C30: at most one toggle is past the flag at any time, and an invocation
\* that reaches the flag while a toggle is in flight returns false in that
\* very step, leaving the flag and the visibility of every window unchanged.
C30_SecondToggleIsNoOp ==
    /\ [](Cardinality(InFlight) <= 1)
    /\ [][\A t \in DOMAIN tasks :
            (/\ tasks[t].op = "toggle_all_windows_hover"
             /\ tasks[t].pc = "enter"
             /\ InFlight # {}
             /\ (t \notin DOMAIN tasks' \/ tasks'[t] # tasks[t]))
            => /\ t \notin DOMAIN tasks'
               /\ last'.seq = last.seq + 1
               /\ last'.this.op = "toggle_all_windows_hover"
               /\ last'.value = Some(FALSE)
               /\ UNCHANGED <<main_visible, live_windows, detached_windows,
                              toggle_state>>
               /\ InFlight' = InFlight]_vars

\* One toggle has hidden the main window and is still in flight, and the
\* only command that has returned is a toggle that returned false.
C30_Witness ==
    /\ \E t \in InFlight : tasks[t].pc = "hide"
    /\ ~main_visible
    /\ last.seq = 1
    /\ last.this.op = "toggle_all_windows_hover"
    /\ last.value = Some(FALSE)

\* C40: a shade or unshade that returns an error leaves is_shaded and
\* original_height of the record as they were.
C40_FailedShadeKeepsRecord ==
    [][(/\ last'.seq = last.seq + 1
        /\ last'.this.op = "toggle_window_shade"
        /\ last'.this.result = "err"
        /\ last'.this.id \in DOMAIN detached_windows)
       => LET id == last'.this.id
          IN  /\ id \in DOMAIN detached_windows'
              /\ detached_windows'[id].is_shaded = detached_windows[id].is_shaded
              /\ detached_windows'[id].original_height =
                     detached_windows[id].original_height]_vars

\* C38: after a window command that returned successfully and changed the
\* record map, the persisted window state equals the record map.
C38_PersistedEqualsMemory ==
    [][(/\ last'.seq = last.seq + 1
        /\ last'.this.result = "ok"
        /\ detached_windows' # detached_windows)
       => windows_file' = detached_windows']_vars

\* C33: the in-flight flag is set only while a toggle is in flight, so every
\* invocation that set it clears it before it has finished.
C33_FlagClearedOnEveryPath ==
    toggle_state => InFlight # {}

\* C37: a create, update, delete or reorder command that returns an error
\* leaves the note map exactly as it was before the command.
C37_FailedCommandKeepsMap ==
    [][(/\ last'.seq = last.seq + 1
        /\ last'.this.op \in {"create_note", "update_note", "delete_note",
                               "reorder_notes"}
        /\ last'.this.result = "err")
       => notes' = notes]_vars

\* C32: parsing the text written for a note gives back the note: the same
\* id, title, content, created_at, updated_at, tags and position.
C32_ParseOfSerialize ==
    last.this.op = "load_note_from_file"
        => /\ last.this.result = "ok"
           /\ last.value = Some(notes[last.this.id])

\* C39: a command that upserts the index entry of one note leaves the index
\* entry of every other note in place and unaltered.
C39_UpsertKeepsOtherEntries ==
    [][(/\ last'.seq = last.seq + 1
        /\ last'.this.op \in {"create_note", "update_note"}
        /\ last'.this.index_updated)
       => \A id \in DOMAIN index \ {last'.this.id} :
             /\ id \in DOMAIN index'
             /\ index'[id] = index[id]]_vars

\* C31: has_content_changed answers true exactly when no hash is recorded
\* for the note or the recorded hash is not the hash of the content, and
\* false for the content that the call just before it recorded for the note
\* through initialize_note or update_content_hash.
C31_ChangedIffHashDiffers ==
    last.this.op = "has_content_changed"
        => LET id == last.this.id
               content == last.this.request.content[1]
           IN  /\ last.value = Some(last.this.content_changed)
               /\ last.this.content_changed
                     <=> \/ id \notin DOMAIN content_hashes
                         \/ content_hashes[id] # compute_content_hash(content)
               /\ (/\ last.prev.op \in {"initialize_note", "update_content_hash"}
                   /\ last.prev.id = id
                   /\ last.prev.request.content = Some(content))
                     => ~last.this.content_changed

\* has_content_changed has answered false for the content recorded by the
\* update_content_hash just before it, for a note marked as modified.
C31_Witness ==
    /\ last.seq = 3
    /\ last.this.op = "has_content_changed"
    /\ last.prev.op = "update_content_hash"
    /\ last.prev.id = last.this.id
    /\ last.prev.request.content = last.this.request.content
    /\ ~last.this.content_changed
    /\ last.this.id \in DOMAIN dirty_flags

\* C36: when a loaded map is installed, every note of the replaced map that
\* a command had saved is in the new map with the content it had.
C36_InstallKeepsSavedNotes ==
    [][(pending # None /\ pending' = None /\ notes' = pending[1])
       => \A id \in DOMAIN notes :
             Persisted(id)
                => /\ id \in DOMAIN notes'
                   /\ notes'[id].content = notes[id].content]_vars

\* C35: no command waits for the configuration lock with the notes lock in
\* hand while another waits for the notes lock with the configuration lock
\* in hand.
C35_NotesAndConfigInOneOrder ==
    \A t, u \in DOMAIN tasks :
        ~ /\ notes_lock = Some(t)
          /\ Wants(t) = "config"
          /\ config_lock = Some(u)
          /\ Wants(u) = "notes"

\* C34: the commands that call the tracker run to completion: while tasks
\* are running, one of them can take its next step.
C34_TrackerCallersComplete ==
    DOMAIN tasks # {} => \E t \in DOMAIN tasks : ~Blocked(t)

====
